---------------------------- MODULE Spec2Model ----------------------------
(***************************************************************************)
(* A model of the resilient vector-store client of biskilled/jam7:         *)
(*   src/rag/production_rag_manager.py        (thread-based client)        *)
(*   src/rag/async_production_rag_manager.py  (asyncio client)             *)
(*                                                                         *)
(* Each lock-protected section of the thread-based client, and each        *)
(* stretch of a coroutine between two suspension points of the asyncio     *)
(* client, is one atomic action.  Time is the integer clock `now`.         *)
(***************************************************************************)
EXTENDS Integers, Sequences, FiniteSets, TLC

(***************************************************************************)
(* Bounds of the model and scaled-down configuration values.               *)
(***************************************************************************)
MaxTime == 3            \* the clock stops advancing here
MaxClients == 3         \* HttpClient objects ever created
max_connections == 2    \* ConnectionPool(max_connections=...)
max_idle_time == 2      \* ConnectionPool(max_idle_time=...)
failure_threshold == 2  \* circuit_breaker_threshold
recovery_timeout == 2   \* circuit_breaker_timeout
MaxRetryAttempts == 3   \* largest retry_attempts configured
MaxBatch == 3           \* longest list handed to batch_operations
ttl_seconds == 2        \* CacheConfig.ttl_seconds
MaxVer == 2             \* mutations of one collection on the remote service
MaxCalls == 3           \* operations begun on the asyncio facade in one run
MaxResponseTimes == 2   \* response times kept by _record_success (1000 in the source)
MaxSamples == 5         \* successes recorded in one run
MaxOps == 2             \* facade operations begun in one run of the manager
NoFailureYet == -1      \* CircuitBreaker._last_failure_time = None

Callers == {"t1", "t2"} \* threads (or coroutines) using the client
Hosts == {"h1", "h2"}
Ports == {8000}
Labels == {"A"}      \* collection names (store labels)
BackoffFactors == {2, 3}  \* values of retry_backoff_factor (thread-based client)
RetryDelays == {1, 2}     \* values of retry_delay (asyncio client)

VARIABLES
    now,          \* time.time()
    connections,  \* ConnectionPool._connections: list of dicts
    nextClient,   \* identity of the next chromadb.HttpClient object created
    held,         \* per caller: clients returned by get_connection, not yet released
    poolResult,   \* per caller: how its last get_connection ended
    impl,         \* which client runs: "thread" or "async"
    cfg,          \* the client's retry configuration
    cb,           \* the circuit breaker: state, failure_count, last_failure_time
    tasks,        \* asyncio: record tasks created and not yet run (FIFO)
    pc,           \* per caller: where it is in the executor
    attempt,      \* per caller: the loop variable `attempt`
    last_exception, \* per caller: _retry_with_backoff's last_exception
    sleepArg,     \* per caller: argument of the current time.sleep / asyncio.sleep
    sleepFrom,    \* per caller: when that sleep began
    outcome,      \* per caller: how its last executor call ended
    hist,         \* history of the run, read by the properties only
    mlock,        \* ProductionRAGManager._lock: the thread holding it, or "free"
    vector_stores,\* ProductionRAGManager._vector_stores: label -> client of the store, 0 absent
    frames,       \* per thread: its running _retry_with_backoff calls, innermost last
    op,           \* per thread: the facade operation it runs
    using,        \* per thread: the client its remote call in progress goes through, 0 none
    res,          \* per thread: what the function just left returned or raised
    batch,        \* asyncio facade: the batch_operations call in progress or just returned
    redis,        \* the Redis keyspace behind AsyncRedisCache: entries key, value, expire_at
    cacheCfg,     \* CacheConfig flags and whether AsyncRedisCache.redis is set
    cc,           \* per coroutine: its call of AsyncRedisCache in progress, and its last return
    chist,        \* history of the cache and of the facade calls, read by the properties only
    remote,       \* the remote service: per collection its version, 0 when absent
    fc,           \* per coroutine: its operation of the asyncio facade
    metrics,      \* ConnectionMetrics.response_times and the threads inside _record_success
    pair,         \* a CircuitBreaker and an AsyncCircuitBreaker driven by the same events
    locks,        \* the three RLocks of the thread client and the threads' positions
    am            \* asyncio facade: the pool's session, the cache flag, the counters, the coroutines

poolVars == <<connections, nextClient, held, poolResult>>
execVars == <<impl, cfg, cb, tasks, pc, attempt, last_exception, sleepArg,
              sleepFrom, outcome, hist>>
mgrVars == <<mlock, vector_stores, frames, op, using, res>>
batchVars == <<batch>>
cacheVars == <<redis, cacheCfg, cc, chist, remote, fc>>
auxVars == <<metrics, pair, locks, am>>
vars == <<now, connections, nextClient, held, poolResult, impl, cfg, cb, tasks,
          pc, attempt, last_exception, sleepArg, sleepFrom, outcome, hist,
          mlock, vector_stores, frames, op, using, res, batch,
          redis, cacheCfg, cc, chist, remote, fc, metrics, pair, locks, am>>

(***************************************************************************)
(* time: the clock moves on; a record task the event loop has ready runs   *)
(* before it does                                                          *)
(***************************************************************************)
Tick ==
    /\ now < MaxTime
    /\ tasks = <<>>
    /\ now' = now + 1

(***************************************************************************)
(* ConnectionPool (thread-based client)                                    *)
(***************************************************************************)
Reusable_IgnoreIdle(conn, host, port) ==
    /\ conn.host = host
    /\ conn.port = port
    /\ ~conn.in_use

\* the condition of the scan in get_connection
Reusable(conn, host, port) ==
    /\ conn.host = host
    /\ conn.port = port
    /\ ~conn.in_use
    /\ now - conn.last_used < max_idle_time

\* the first entry the for loop of get_connection accepts, 0 when none
FirstReusable(conns, host, port) ==
    LET S == {i \in 1..Len(conns) : Reusable(conns[i], host, port)}
    IN IF S = {} THEN 0 ELSE CHOOSE i \in S : \A j \in S : i <= j

HasCapacity_OffByOne(conns) == Len(conns) <= max_connections

\* "if len(self._connections) < self.max_connections"
HasCapacity(conns) == Len(conns) < max_connections

NewConn(client, host, port) ==
    [client |-> client, host |-> host, port |-> port,
     in_use |-> TRUE, last_used |-> now]

\* ConnectionPool.get_connection, the whole method under self._lock: how it
\* ends, the client it returns (0 when it raises) and the list it leaves
GetConn(conns, host, port) ==
    LET i == FirstReusable(conns, host, port) IN
    IF i # 0
    THEN [result |-> "reused", client |-> conns[i].client,
          conns |-> [conns EXCEPT ![i].in_use = TRUE, ![i].last_used = now]]
    ELSE IF HasCapacity(conns)
    THEN [result |-> "created", client |-> nextClient,
          conns |-> Append(conns, NewConn(nextClient, host, port))]
    ELSE [result |-> "exhausted", client |-> 0, conns |-> conns]

\* a caller's get_connection
GetConnection(t, host, port) ==
    LET g == GetConn(connections, host, port) IN
    /\ g.result = "created" => nextClient <= MaxClients
    /\ connections' = g.conns
    /\ nextClient' = IF g.result = "created" THEN nextClient + 1 ELSE nextClient
    /\ held' = [held EXCEPT ![t] = IF g.client = 0 THEN @ ELSE @ \cup {g.client}]
    /\ poolResult' = [poolResult EXCEPT ![t] = g.result]

\* the entry release_connection's loop stops at, 0 when none
EntryOf(conns, client) ==
    LET S == {i \in 1..Len(conns) : conns[i].client = client}
    IN IF S = {} THEN 0 ELSE CHOOSE i \in S : \A j \in S : i <= j

Released_KeepInUse(conns, client) == conns

\* the list release_connection leaves
Released(conns, client) ==
    LET i == EntryOf(conns, client) IN
    IF i = 0 THEN conns
    ELSE [conns EXCEPT ![i].in_use = FALSE, ![i].last_used = now]

\* ConnectionPool.release_connection, the whole method under self._lock
ReleaseConnection(t, client) ==
    /\ client \in held[t]
    /\ connections' = Released(connections, client)
    /\ held' = [held EXCEPT ![t] = @ \ {client}]
    /\ UNCHANGED <<nextClient, poolResult>>

\* The scan with a heartbeat sent to every entry, the in-use ones included.
Probed_All(conns) == {conns[i].client : i \in 1..Len(conns)}

\* entries a scan probes: "if not conn['in_use']: conn['client'].heartbeat()"
Probed(conns) == {conns[i].client : i \in {j \in 1..Len(conns) : ~conns[j].in_use}}

\* ConnectionPool._health_check_connections, one scan under self._lock;
\* `failed` are the probed clients whose heartbeat raises
HealthCheck(failed) ==
    /\ failed \subseteq Probed(connections)
    /\ connections' = SelectSeq(connections, LAMBDA conn : conn.client \notin failed)
    /\ UNCHANGED <<nextClient, held, poolResult>>

InitPool ==
    /\ now = 0
    /\ connections = <<>>
    /\ nextClient = 1
    /\ held = [t \in Callers |-> {}]
    /\ poolResult = [t \in Callers |-> "none"]

\* the executor is not running
ExecOff ==
    /\ impl = "none"
    /\ cfg = [retry_attempts |-> 1]
    /\ cb = [state |-> "CLOSED", failure_count |-> 0, last_failure_time |-> NoFailureYet]
    /\ tasks = <<>>
    /\ pc = [c \in Callers |-> "idle"]
    /\ attempt = [c \in Callers |-> 0]
    /\ last_exception = [c \in Callers |-> [kind |-> "None", at |-> 0]]
    /\ sleepArg = [c \in Callers |-> 0]
    /\ sleepFrom = [c \in Callers |-> 0]
    /\ outcome = [c \in Callers |-> [kind |-> "none"]]
    /\ hist = <<>>

\* no facade operation is running
ManagerOff ==
    /\ mlock = "free"
    /\ vector_stores = [l \in Labels |-> 0]
    /\ frames = [c \in Callers |-> <<>>]
    /\ op = [c \in Callers |-> [name |-> "none", label |-> "A"]]
    /\ using = [c \in Callers |-> 0]
    /\ res = [c \in Callers |-> [ok |-> TRUE, client |-> 0, err |-> [kind |-> "None", at |-> 0]]]

\* no batch_operations call has been made
NoBatch == [pc |-> "idle", operations |-> <<>>, tasks |-> <<>>, results |-> <<>>,
            processed_results |-> <<>>]

BatchOff == batch = NoBatch

\* no thread records a response time and no pair of breakers is driven
AuxOff ==
    /\ metrics = <<>>
    /\ pair = <<>>
    /\ locks = <<>>
    /\ am = <<>>

\* the cache and the asyncio facade are not in use
CacheOff ==
    /\ redis = {}
    /\ cacheCfg = [enabled |-> FALSE, enable_query_cache |-> FALSE, connected |-> FALSE]
    /\ cc = <<>>
    /\ chist = <<>>
    /\ remote = <<>>
    /\ fc = <<>>

InitPoolOnly == InitPool /\ ExecOff /\ ManagerOff /\ BatchOff /\ CacheOff /\ AuxOff

NextPool ==
    \/ Tick /\ UNCHANGED <<poolVars, execVars, mgrVars, batchVars, cacheVars, auxVars>>
    \/ \E t \in Callers, h \in Hosts, p \in Ports :
          GetConnection(t, h, p) /\ UNCHANGED <<now, execVars, mgrVars, batchVars, cacheVars, auxVars>>
    \/ \E t \in Callers : \E c \in held[t] :
          ReleaseConnection(t, c) /\ UNCHANGED <<now, execVars, mgrVars, batchVars, cacheVars, auxVars>>
    \/ \E failed \in SUBSET Probed(connections) :
          HealthCheck(failed) /\ UNCHANGED <<now, execVars, mgrVars, batchVars, cacheVars, auxVars>>

SpecPool == InitPoolOnly /\ [][NextPool]_vars

InUse(conns) == {i \in 1..Len(conns) : conns[i].in_use}

\* C1: under every interleaving of get_connection, release_connection and
\* health-check scans, neither the number of in-use entries nor the number
\* of registered entries of the pool exceeds max_connections.
C1_PoolBounded ==
    /\ Cardinality(InUse(connections)) <= max_connections
    /\ Len(connections) <= max_connections

\* the pool is full, every entry is borrowed, and a further get_connection
\* was refused
C1_Witness ==
    /\ Len(connections) = max_connections
    /\ Cardinality(InUse(connections)) = max_connections
    /\ \E t \in Callers : poolResult[t] = "exhausted"


(***************************************************************************)
(* CircuitBreaker (thread-based client); every method body runs under      *)
(* self._lock                                                              *)
(***************************************************************************)
RECURSIVE Pow(_, _)
\* b ** e
Pow(b, e) == IF e = 0 THEN 1 ELSE b * Pow(b, e - 1)

\* CircuitBreaker._can_execute: the answer and the breaker it leaves
CanExecute(b) ==
    IF b.state = "CLOSED" THEN [ok |-> TRUE, cb |-> b]
    ELSE IF b.state = "OPEN"
    THEN IF now - b.last_failure_time >= recovery_timeout
         THEN [ok |-> TRUE, cb |-> [b EXCEPT !.state = "HALF_OPEN"]]
         ELSE [ok |-> FALSE, cb |-> b]
    ELSE [ok |-> TRUE, cb |-> b]

\* CircuitBreaker._on_success
OnSuccess(b) == [b EXCEPT !.failure_count = 0, !.state = "CLOSED"]

\* CircuitBreaker._on_failure
OnFailure(b) ==
    LET n == b.failure_count + 1 IN
    [state |-> IF n >= failure_threshold THEN "OPEN" ELSE b.state,
     failure_count |-> n,
     last_failure_time |-> now]

(***************************************************************************)
(* AsyncCircuitBreaker (asyncio client)                                    *)
(***************************************************************************)
\* AsyncCircuitBreaker._check_state: ok = FALSE is the raise
CheckState(b) ==
    IF b.state = "OPEN"
    THEN IF now - b.last_failure_time > recovery_timeout
         THEN [ok |-> TRUE, cb |-> [b EXCEPT !.state = "HALF_OPEN"]]
         ELSE [ok |-> FALSE, cb |-> b]
    ELSE [ok |-> TRUE, cb |-> b]

\* the task record_success creates
RecordSuccess(b) ==
    [b EXCEPT !.state = IF b.state = "HALF_OPEN" THEN "CLOSED" ELSE b.state,
              !.failure_count = 0]

RecordFailure_Strict(b) ==
    LET n == b.failure_count + 1 IN
    [state |-> IF n > failure_threshold THEN "OPEN" ELSE b.state,
     failure_count |-> n,
     last_failure_time |-> now]

\* the task record_failure creates
RecordFailure(b) ==
    LET n == b.failure_count + 1 IN
    [state |-> IF n >= failure_threshold THEN "OPEN" ELSE b.state,
     failure_count |-> n,
     last_failure_time |-> now]


(***************************************************************************)
(* History kept for the properties: what the attempts of the run did.      *)
(* No action of the client reads it.                                       *)
(*   consec      failed attempts since the last successful one (saturates) *)
(*   lastFailAt  when the last attempt failed                              *)
(*   tripped     failure_threshold consecutive failures were seen and no   *)
(*               call has been admitted after the recovery timeout since   *)
(*   openTrials  attempts begun while the breaker was HALF_OPEN whose      *)
(*               outcome the breaker has not recorded yet                  *)
(*   isTrial     per caller: its running attempt is one of those           *)
(*   tries       per caller: attempts of its current call                  *)
(*   nSleeps     per caller: backoff sleeps of its current call            *)
(*   attemptErr  per caller: the error its latest attempt raised           *)
(*   begun       facade operations begun on the manager                    *)
(*   failed      remote calls that raised in the facade operation a thread *)
(*               of the manager is in                                      *)
(***************************************************************************)
Err(kind, at) == [kind |-> kind, at |-> at]
NoError == Err("None", 0)

HistInit ==
    [consec |-> 0, lastFailAt |-> 0, tripped |-> FALSE, openTrials |-> 0,
     isTrial |-> [c \in Callers |-> FALSE],
     tries |-> [c \in Callers |-> 0],
     nSleeps |-> [c \in Callers |-> 0],
     attemptErr |-> [c \in Callers |-> NoError],
     begun |-> 0,
     failed |-> [c \in Callers |-> 0]]

\* a remote call of the facade operation of thread c raised
HistRemoteFailed(h, c) == [h EXCEPT !.failed[c] = @ + 1]

\* the facade operation of thread c has returned when its pc is back at idle
HistReturned(h, c, at) == IF at = "idle" THEN [h EXCEPT !.failed[c] = 0] ELSE h

HistNewCall(h, c) ==
    [h EXCEPT !.tries[c] = 0, !.nSleeps[c] = 0, !.attemptErr[c] = NoError]

\* caller c begins an attempt while the breaker is b
HistAttempt(h, c, b) ==
    [h EXCEPT !.tries[c] = @ + 1,
              !.isTrial[c] = (b.state = "HALF_OPEN"),
              !.openTrials = @ + (IF b.state = "HALF_OPEN" THEN 1 ELSE 0)]

\* an admission check let a call through
HistAdmitted(h) ==
    [h EXCEPT !.tripped = IF now - h.lastFailAt >= recovery_timeout THEN FALSE ELSE @]

HistSuccess(h, c) == [h EXCEPT !.consec = 0, !.isTrial[c] = FALSE]

HistFailure(h, c, e) ==
    [h EXCEPT !.consec = IF @ < failure_threshold THEN @ + 1 ELSE @,
              !.lastFailAt = now,
              !.tripped = @ \/ (h.consec + 1 >= failure_threshold),
              !.isTrial[c] = FALSE,
              !.attemptErr[c] = e]

HistRecorded(h, wasTrial) ==
    [h EXCEPT !.openTrials = @ - (IF wasTrial THEN 1 ELSE 0)]

(***************************************************************************)
(* ProductionRAGManager._retry_with_backoff around CircuitBreaker.call,    *)
(* func being any unit of work that returns or raises                      *)
(***************************************************************************)
RecordException_KeepFirst(prev, e) == IF prev = NoError THEN e ELSE prev

\* "last_exception = e"
RecordException(prev, e) == e

\* "if attempt < self.retry_attempts - 1"
MoreAttempts(k) == k < cfg.retry_attempts - 1

BackoffTime_Linear(k) == cfg.retry_backoff_factor * k

\* "backoff_time = self.retry_backoff_factor ** attempt"
BackoffTime(k) == Pow(cfg.retry_backoff_factor, k)

\* the loop is entered: "last_exception = None; for attempt in range(...)"
T_Start(c) ==
    /\ impl = "thread"
    /\ pc[c] = "idle"
    /\ pc' = [pc EXCEPT ![c] = "call"]
    /\ attempt' = [attempt EXCEPT ![c] = 0]
    /\ last_exception' = [last_exception EXCEPT ![c] = NoError]
    /\ outcome' = [outcome EXCEPT ![c] = [kind |-> "running", err |-> NoError]]
    /\ hist' = HistNewCall(hist, c)
    /\ UNCHANGED <<impl, cfg, cb, tasks, sleepArg, sleepFrom>>

\* the except clause of _retry_with_backoff for the error e of this attempt,
\* and the "raise last_exception" that follows the last iteration;
\* h is the history up to the error
T_Except(c, e, h) ==
    LET le == RecordException(last_exception[c], e) IN
    /\ last_exception' = [last_exception EXCEPT ![c] = le]
    /\ IF MoreAttempts(attempt[c])
       THEN /\ pc' = [pc EXCEPT ![c] = "sleep"]
            /\ sleepArg' = [sleepArg EXCEPT ![c] = BackoffTime(attempt[c])]
            /\ sleepFrom' = [sleepFrom EXCEPT ![c] = now]
            /\ hist' = [h EXCEPT !.nSleeps[c] = @ + 1]
            /\ UNCHANGED outcome
       ELSE /\ pc' = [pc EXCEPT ![c] = "idle"]
            /\ outcome' = [outcome EXCEPT ![c] = [kind |-> "raised", err |-> le]]
            /\ hist' = h
            /\ UNCHANGED <<sleepArg, sleepFrom>>

\* CircuitBreaker.call up to the call of func: _can_execute, and the raise
\* of "Circuit breaker is ..." into the except clause of the retry loop
T_Call(c) ==
    /\ impl = "thread"
    /\ pc[c] = "call"
    /\ LET r == CanExecute(cb)
           e == Err("CircuitOpen", attempt[c]) IN
       /\ cb' = r.cb
       /\ IF r.ok
          THEN /\ pc' = [pc EXCEPT ![c] = "func"]
               /\ hist' = HistAdmitted(HistAttempt(hist, c, r.cb))
               /\ UNCHANGED <<last_exception, sleepArg, sleepFrom, outcome>>
          ELSE T_Except(c, e, [hist EXCEPT !.tries[c] = @ + 1, !.attemptErr[c] = e])
    /\ UNCHANGED <<impl, cfg, tasks, attempt>>

\* func returns: _on_success, and _retry_with_backoff returns the result
T_FuncOk(c) ==
    /\ impl = "thread"
    /\ pc[c] = "func"
    /\ cb' = OnSuccess(cb)
    /\ pc' = [pc EXCEPT ![c] = "idle"]
    /\ outcome' = [outcome EXCEPT ![c] = [kind |-> "ok", err |-> NoError]]
    /\ hist' = HistRecorded(HistSuccess(hist, c), hist.isTrial[c])
    /\ UNCHANGED <<impl, cfg, tasks, attempt, last_exception, sleepArg, sleepFrom>>

\* func raises: _on_failure, "raise e", and the except clause of the loop
T_FuncFail(c) ==
    /\ impl = "thread"
    /\ pc[c] = "func"
    /\ cb' = OnFailure(cb)
    /\ LET e == Err("Transport", attempt[c]) IN
       T_Except(c, e, HistRecorded(HistFailure(hist, c, e), hist.isTrial[c]))
    /\ UNCHANGED <<impl, cfg, tasks, attempt>>

\* time.sleep(backoff_time) returns and the loop goes to its next iteration
T_Wake(c) ==
    /\ impl = "thread"
    /\ pc[c] = "sleep"
    /\ now >= sleepFrom[c] + sleepArg[c]
    /\ pc' = [pc EXCEPT ![c] = "call"]
    /\ attempt' = [attempt EXCEPT ![c] = @ + 1]
    /\ UNCHANGED <<impl, cfg, cb, tasks, last_exception, sleepArg, sleepFrom,
                   outcome, hist>>

NextThread ==
    \/ \E c \in Callers : T_Start(c) /\ UNCHANGED <<now, poolVars, mgrVars, batchVars, cacheVars, auxVars>>
    \/ \E c \in Callers : T_Call(c) /\ UNCHANGED <<now, poolVars, mgrVars, batchVars, cacheVars, auxVars>>
    \/ \E c \in Callers : T_FuncOk(c) /\ UNCHANGED <<now, poolVars, mgrVars, batchVars, cacheVars, auxVars>>
    \/ \E c \in Callers : T_FuncFail(c) /\ UNCHANGED <<now, poolVars, mgrVars, batchVars, cacheVars, auxVars>>
    \/ \E c \in Callers : T_Wake(c) /\ UNCHANGED <<now, poolVars, mgrVars, batchVars, cacheVars, auxVars>>

(***************************************************************************)
(* AsyncConnectionPool.request.  record_success and record_failure only    *)
(* create a task; the event loop runs it when the running coroutine next   *)
(* suspends, so a coroutine resumes only after the tasks it created ran.   *)
(***************************************************************************)
NoOwnTask(c) == \A i \in 1..Len(tasks) : tasks[i].owner # c

\* "if attempt == self.config.retry_attempts - 1: raise"
LastAttempt(k) == k = cfg.retry_attempts - 1

\* "self.config.retry_delay * (2 ** attempt)"
AsyncBackoff(k) == cfg.retry_delay * Pow(2, k)

\* request(): "async with self._circuit_breaker" (_check_state) and, when
\* it does not raise, the first attempt up to its await of the response
A_Start(c) ==
    /\ impl = "async"
    /\ pc[c] = "idle"
    /\ LET r == CheckState(cb) IN
       /\ cb' = r.cb
       /\ attempt' = [attempt EXCEPT ![c] = 0]
       /\ IF r.ok
          THEN /\ pc' = [pc EXCEPT ![c] = "http"]
               /\ outcome' = [outcome EXCEPT ![c] = [kind |-> "running", err |-> NoError]]
               /\ hist' = HistAdmitted(HistAttempt(HistNewCall(hist, c), c, r.cb))
          ELSE /\ pc' = pc
               /\ outcome' = [outcome EXCEPT ![c] =
                                 [kind |-> "raised", err |-> Err("CircuitOpen", 0)]]
               /\ hist' = [HistNewCall(hist, c) EXCEPT
                               !.attemptErr[c] = Err("CircuitOpen", 0)]
    /\ UNCHANGED <<impl, cfg, tasks, last_exception, sleepArg, sleepFrom>>

\* the response arrives with a status below 400: record_success(), return data
A_HttpOk(c) ==
    /\ impl = "async"
    /\ pc[c] = "http"
    /\ NoOwnTask(c)
    /\ tasks' = Append(tasks, [kind |-> "S", owner |-> c, trial |-> hist.isTrial[c]])
    /\ pc' = [pc EXCEPT ![c] = "idle"]
    /\ outcome' = [outcome EXCEPT ![c] = [kind |-> "ok", err |-> NoError]]
    /\ hist' = HistSuccess(hist, c)
    /\ UNCHANGED <<impl, cfg, cb, attempt, last_exception, sleepArg, sleepFrom>>

\* the attempt raises: record_failure(), then the bare raise or the sleep
A_HttpFail(c) ==
    /\ impl = "async"
    /\ pc[c] = "http"
    /\ NoOwnTask(c)
    /\ tasks' = Append(tasks, [kind |-> "F", owner |-> c, trial |-> hist.isTrial[c]])
    /\ LET e == Err("Transport", attempt[c])
           h == HistFailure(hist, c, e) IN
       IF LastAttempt(attempt[c])
       THEN /\ pc' = [pc EXCEPT ![c] = "idle"]
            /\ outcome' = [outcome EXCEPT ![c] = [kind |-> "raised", err |-> e]]
            /\ hist' = h
            /\ UNCHANGED <<sleepArg, sleepFrom>>
       ELSE /\ pc' = [pc EXCEPT ![c] = "sleep"]
            /\ sleepArg' = [sleepArg EXCEPT ![c] = AsyncBackoff(attempt[c])]
            /\ sleepFrom' = [sleepFrom EXCEPT ![c] = now]
            /\ hist' = [h EXCEPT !.nSleeps[c] = @ + 1]
            /\ UNCHANGED outcome
    /\ UNCHANGED <<impl, cfg, cb, attempt, last_exception>>

\* asyncio.sleep returns: the next attempt, up to its await of the response
A_Wake(c) ==
    /\ impl = "async"
    /\ pc[c] = "sleep"
    /\ now >= sleepFrom[c] + sleepArg[c]
    /\ NoOwnTask(c)
    /\ pc' = [pc EXCEPT ![c] = "http"]
    /\ attempt' = [attempt EXCEPT ![c] = @ + 1]
    /\ hist' = HistAttempt(hist, c, cb)
    /\ UNCHANGED <<impl, cfg, cb, tasks, last_exception, sleepArg, sleepFrom, outcome>>

\* the event loop runs the oldest record task: _record() under the lock
A_RunTask ==
    /\ impl = "async"
    /\ tasks # <<>>
    /\ cb' = IF Head(tasks).kind = "S" THEN RecordSuccess(cb) ELSE RecordFailure(cb)
    /\ tasks' = Tail(tasks)
    /\ hist' = HistRecorded(hist, Head(tasks).trial)
    /\ UNCHANGED <<impl, cfg, pc, attempt, last_exception, sleepArg, sleepFrom, outcome>>

NextAsync ==
    \/ \E c \in Callers : A_Start(c) /\ UNCHANGED <<now, poolVars, mgrVars, batchVars, cacheVars, auxVars>>
    \/ \E c \in Callers : A_HttpOk(c) /\ UNCHANGED <<now, poolVars, mgrVars, batchVars, cacheVars, auxVars>>
    \/ \E c \in Callers : A_HttpFail(c) /\ UNCHANGED <<now, poolVars, mgrVars, batchVars, cacheVars, auxVars>>
    \/ \E c \in Callers : A_Wake(c) /\ UNCHANGED <<now, poolVars, mgrVars, batchVars, cacheVars, auxVars>>
    \/ A_RunTask /\ UNCHANGED <<now, poolVars, mgrVars, batchVars, cacheVars, auxVars>>

(***************************************************************************)
(* The executors on their own: callers run _retry_with_backoff(func)       *)
(* (thread-based) or AsyncConnectionPool.request (asyncio) again and       *)
(* again, under every retry configuration of the bounds.                   *)
(***************************************************************************)
ThreadConfigs ==
    [retry_attempts : 1..MaxRetryAttempts, retry_backoff_factor : BackoffFactors]

AsyncConfigs ==
    [retry_attempts : 1..MaxRetryAttempts, retry_delay : RetryDelays]

InitExec ==
    /\ InitPool
    /\ \/ /\ impl = "thread"
          /\ cfg \in ThreadConfigs
          /\ cb = [state |-> "CLOSED", failure_count |-> 0,
                   last_failure_time |-> NoFailureYet]
       \/ /\ impl = "async"
          /\ cfg \in AsyncConfigs
          /\ cb = [state |-> "CLOSED", failure_count |-> 0, last_failure_time |-> 0]
    /\ tasks = <<>>
    /\ pc = [c \in Callers |-> "idle"]
    /\ attempt = [c \in Callers |-> 0]
    /\ last_exception = [c \in Callers |-> NoError]
    /\ sleepArg = [c \in Callers |-> 0]
    /\ sleepFrom = [c \in Callers |-> 0]
    /\ outcome = [c \in Callers |-> [kind |-> "none", err |-> NoError]]
    /\ hist = HistInit
    /\ ManagerOff
    /\ BatchOff
    /\ CacheOff
    /\ AuxOff

NextExec ==
    \/ Tick /\ UNCHANGED <<poolVars, execVars, mgrVars, batchVars, cacheVars, auxVars>>
    \/ NextThread
    \/ NextAsync

SpecExec == InitExec /\ [][NextExec]_vars


(***************************************************************************)
(* Properties of the breakers and the executors                            *)
(***************************************************************************)
\* the breaker has seen failure_threshold consecutive failures and the
\* recovery timeout has not elapsed since the last failure
InsideOpenWindow ==
    /\ hist.tripped
    /\ now - hist.lastFailAt < recovery_timeout

\* C3: thread-based CircuitBreaker: once failure_threshold consecutive
\* failures have been recorded, no call() made before recovery_timeout has
\* elapsed since the last failure reaches the wrapped function, whatever
\* the interleaving of the callers.
C3_OpenRejects ==
    [][(impl = "thread" /\ InsideOpenWindow)
         => \A c \in Callers : ~(pc[c] = "call" /\ pc'[c] = "func")]_vars

\* C4: asyncio client: once failure_threshold consecutive HTTP attempts
\* have failed, no request() started before the breaker timeout has elapsed
\* gets to issue an HTTP attempt, also when it starts right after the call
\* that failed returned.
C4_OpenRejects ==
    [][(impl = "async" /\ InsideOpenWindow)
         => \A c \in Callers : ~(pc[c] = "idle" /\ pc'[c] = "http")]_vars

\* what C5 asks of the breaker after the outcome of a trial call
TrialOutcomeApplied(ok) ==
    IF ok THEN cb'.state = "CLOSED" /\ cb'.failure_count = 0
    ELSE cb'.state = "OPEN" /\ cb'.last_failure_time = now

\* C5: in both breakers, recording the outcome of a call admitted while the
\* breaker is HALF_OPEN leaves it CLOSED with counter 0 when the call
\* succeeded, and OPEN with the last-failure time refreshed when it failed.
C5_HalfOpenOutcome ==
    [][/\ \A c \in Callers :
            (/\ impl = "thread"
             /\ pc[c] = "func" /\ pc'[c] # "func"
             /\ hist.isTrial[c] /\ cb.state = "HALF_OPEN")
            => TrialOutcomeApplied(outcome'[c].kind = "ok")
       /\ (/\ impl = "async"
           /\ tasks # <<>> /\ tasks' = Tail(tasks)
           /\ Head(tasks).trial /\ cb.state = "HALF_OPEN")
          => TrialOutcomeApplied(Head(tasks).kind = "S")]_vars

\* C6: at most one call admitted while the breaker is HALF_OPEN is under
\* way before its outcome has been recorded.
C6_SingleTrial == hist.openTrials <= 1

\* C7: an attempt the breaker rejects ends the executor call at once with
\* the breaker-open error: no backoff sleep, no further attempt.
C7_RejectionIsTerminal ==
    \A c \in Callers :
        hist.attemptErr[c].kind = "CircuitOpen"
        => /\ pc[c] = "idle"
           /\ outcome[c].kind = "raised"
           /\ outcome[c].err.kind = "CircuitOpen"
           /\ hist.nSleeps[c] = 0

\* the delay and the factor the backoff formula of C8 is read with: the
\* thread-based client has no retry_delay (its delay is factor ** attempt),
\* the asyncio client has no factor parameter (its factor is the literal 2)
ClaimedDelay == IF impl = "thread" THEN 1 ELSE cfg.retry_delay
ClaimedFactor == IF impl = "thread" THEN cfg.retry_backoff_factor ELSE 2

AllAttemptsFailed(c) ==
    /\ outcome[c].kind = "raised"
    /\ hist.tries[c] = cfg.retry_attempts

\* C8: the sleep after failed attempt k lasts retry_delay * backoff_factor^k,
\* it is the (k+1)-th sleep of the call, none follows the final attempt, and
\* a call whose attempts all failed slept exactly retry_attempts - 1 times.
C8_BackoffSchedule ==
    \A c \in Callers :
        /\ pc[c] = "sleep"
           => /\ sleepArg[c] = ClaimedDelay * Pow(ClaimedFactor, attempt[c])
              /\ hist.nSleeps[c] = attempt[c] + 1
              /\ attempt[c] < cfg.retry_attempts - 1
        /\ AllAttemptsFailed(c) => hist.nSleeps[c] = cfg.retry_attempts - 1

\* three attempts failed, after sleeps of 1 and then 2
C8_Witness ==
    \E c \in Callers :
        /\ AllAttemptsFailed(c)
        /\ cfg.retry_attempts = 3
        /\ ClaimedDelay = 1 /\ ClaimedFactor = 2
        /\ hist.nSleeps[c] = 2
        /\ sleepArg[c] = 2

\* C9: when every attempt of an executor call failed, the error the
\* executor raises is the one the final attempt raised.
C9_LastErrorSurfaced ==
    \A c \in Callers :
        AllAttemptsFailed(c)
        => /\ outcome[c].err = hist.attemptErr[c]
           /\ outcome[c].err.at = cfg.retry_attempts - 1

\* a call of three attempts ended with the error of the third
C9_Witness ==
    \E c \in Callers :
        /\ AllAttemptsFailed(c)
        /\ cfg.retry_attempts = 3
        /\ outcome[c].err.at = 2


(***************************************************************************)
(* ProductionRAGManager: the facade operations of the thread-based client. *)
(* A thread's frames are its running _retry_with_backoff calls: the one of *)
(* the operation and, inside get_vector_store, the one of _create_store.   *)
(* pc: "call"    at circuit_breaker.call of the innermost frame            *)
(*     "lock"    at "with self._lock" of get_vector_store                  *)
(*     "acquire" at connection_pool.get_connection                         *)
(*     "remote"  in a call to the remote service through using[c]          *)
(*     "record"  the function has returned or raised; the breaker records  *)
(*     "sleep"   in time.sleep(backoff_time)                               *)
(***************************************************************************)
chroma_host == "h1"
chroma_port == 8000

FacadeOps == {"search", "add", "info", "delete", "health", "cleanup"}

\* the function a facade operation hands to _retry_with_backoff
FuncOf(name) ==
    CASE name = "search" -> "_search"
      [] name = "add" -> "_add_docs"
      [] name = "info" -> "_get_info"
      [] name = "delete" -> "_delete"

\* _search and _add_docs begin with get_vector_store, the others with
\* "with self._get_connection() as client"
FirstStep(f) == IF f \in {"_search", "_add_docs"} THEN "lock" ELSE "acquire"

Top(c) == frames[c][Len(frames[c])]
SetTop(c, fr) == [frames EXCEPT ![c] = [@ EXCEPT ![Len(@)] = fr]]
Pop(c) == [frames EXCEPT ![c] = SubSeq(@, 1, Len(@) - 1)]

NoRes == [ok |-> TRUE, client |-> 0, err |-> NoError]
NoOp == [name |-> "none", label |-> "A"]

\* the facade operation of thread c returns to its caller
M_Return(c, kind, err) ==
    /\ pc' = [pc EXCEPT ![c] = "idle"]
    /\ outcome' = [outcome EXCEPT ![c] = [kind |-> kind, err |-> err]]
    /\ op' = [op EXCEPT ![c] = NoOp]

\* a thread enters a facade operation
M_Begin(c, name, label) ==
    /\ pc[c] = "idle"
    /\ hist.begun < MaxOps
    /\ hist' = [hist EXCEPT !.begun = @ + 1]
    /\ op' = [op EXCEPT ![c] = [name |-> name, label |-> label]]
    /\ outcome' = [outcome EXCEPT ![c] = [kind |-> "running", err |-> NoError]]
    /\ IF name = "health"
       THEN /\ pc' = [pc EXCEPT ![c] = "acquire"]
            /\ UNCHANGED frames
       ELSE IF name = "cleanup"
       THEN /\ pc' = [pc EXCEPT ![c] = "cleanup1"]
            /\ UNCHANGED frames
       ELSE /\ pc' = [pc EXCEPT ![c] = "call"]
            /\ frames' = [frames EXCEPT ![c] =
                  <<[f |-> FuncOf(name), attempt |-> 0, last_exception |-> NoError]>>]
    /\ UNCHANGED <<batchVars, cacheVars, auxVars, now, poolVars, impl, cfg, cb, tasks, attempt, last_exception,
                   sleepArg, sleepFrom, mlock, vector_stores, using, res>>

Caught_NotPoolExhausted(e) == e.kind # "PoolExhausted"

\* "except Exception as e" of _retry_with_backoff: every error is caught
Caught(e) == TRUE

\* the except clause of the innermost _retry_with_backoff for the error e,
\* and what follows its "raise last_exception": get_vector_store logs and
\* returns None (so _search / _add_docs raise "Failed to get vector store"
\* into the breaker of the outer frame), a facade operation logs and returns
\* its default value
M_Except(c, e) ==
    LET fr == Top(c)
        le == RecordException(fr.last_exception, e) IN
    IF Caught(e) /\ MoreAttempts(fr.attempt)
    THEN /\ frames' = SetTop(c, [fr EXCEPT !.last_exception = le])
         /\ pc' = [pc EXCEPT ![c] = "sleep"]
         /\ sleepArg' = [sleepArg EXCEPT ![c] = BackoffTime(fr.attempt)]
         /\ sleepFrom' = [sleepFrom EXCEPT ![c] = now]
         /\ res' = [res EXCEPT ![c] = NoRes]
         /\ UNCHANGED <<outcome, op, mlock>>
    ELSE IF Len(frames[c]) = 2
    THEN /\ frames' = Pop(c)
         /\ mlock' = "free"
         /\ pc' = [pc EXCEPT ![c] = "record"]
         /\ res' = [res EXCEPT ![c] =
               [ok |-> FALSE, client |-> 0, err |-> Err("NoStore", 0)]]
         /\ UNCHANGED <<outcome, op, sleepArg, sleepFrom>>
    ELSE /\ frames' = Pop(c)
         /\ M_Return(c, "default", le)
         /\ res' = [res EXCEPT ![c] = NoRes]
         /\ UNCHANGED <<mlock, sleepArg, sleepFrom>>

\* CircuitBreaker.call of the innermost frame up to the call of func
M_Call(c) ==
    /\ pc[c] = "call"
    /\ LET r == CanExecute(cb) IN
       /\ cb' = r.cb
       /\ IF r.ok
          THEN /\ pc' = [pc EXCEPT ![c] = FirstStep(Top(c).f)]
               /\ UNCHANGED <<frames, outcome, op, res, mlock, sleepArg, sleepFrom>>
          ELSE M_Except(c, Err("CircuitOpen", 0))
    /\ hist' = HistReturned(hist, c, pc'[c])
    /\ UNCHANGED <<batchVars, cacheVars, auxVars, now, poolVars, impl, cfg, tasks, attempt, last_exception,
                   vector_stores, using>>

\* get_vector_store: "with self._lock", the lookup in _vector_stores, and
\* either the return of the cached store (then the store's own remote call
\* begins) or the entry into _retry_with_backoff(_create_store)
M_Lock(c) ==
    /\ pc[c] = "lock"
    /\ mlock = "free"
    /\ IF vector_stores[op[c].label] # 0
       THEN /\ using' = [using EXCEPT ![c] = vector_stores[op[c].label]]
            /\ pc' = [pc EXCEPT ![c] = "remote"]
            /\ UNCHANGED <<mlock, frames>>
       ELSE /\ mlock' = c
            /\ frames' = [frames EXCEPT ![c] = Append(@,
                  [f |-> "_create_store", attempt |-> 0, last_exception |-> NoError])]
            /\ pc' = [pc EXCEPT ![c] = "call"]
            /\ UNCHANGED using
    /\ UNCHANGED <<batchVars, cacheVars, auxVars, now, poolVars, impl, cfg, cb, tasks, attempt, last_exception,
                   sleepArg, sleepFrom, outcome, hist, vector_stores, op, res>>

\* _get_connection(): connection_pool.get_connection(chroma_host, chroma_port);
\* a refusal is raised out of the function (health_check returns 'unhealthy')
M_Acquire(c) ==
    /\ pc[c] = "acquire"
    /\ LET g == GetConn(connections, chroma_host, chroma_port) IN
       /\ g.result = "created" => nextClient <= MaxClients
       /\ connections' = g.conns
       /\ nextClient' = IF g.result = "created" THEN nextClient + 1 ELSE nextClient
       /\ held' = [held EXCEPT ![c] = IF g.client = 0 THEN @ ELSE @ \cup {g.client}]
       /\ using' = [using EXCEPT ![c] = g.client]
       /\ IF g.result # "exhausted"
          THEN /\ pc' = [pc EXCEPT ![c] = "remote"]
               /\ UNCHANGED <<outcome, res, op>>
          ELSE IF op[c].name = "health"
          THEN /\ M_Return(c, "default", Err("PoolExhausted", 0))
               /\ UNCHANGED res
          ELSE /\ pc' = [pc EXCEPT ![c] = "record"]
               /\ res' = [res EXCEPT ![c] = [ok |-> FALSE, client |-> 0,
                             err |-> Err("PoolExhausted", 0)]]
               /\ UNCHANGED <<outcome, op>>
    /\ UNCHANGED <<batchVars, cacheVars, auxVars, now, poolResult, impl, cfg, cb, tasks, attempt, last_exception,
                   sleepArg, sleepFrom, hist, mlock, vector_stores, frames>>

\* the remote call in progress returns (ok) or raises; when the client was
\* borrowed from the pool, the finally of _get_connection releases it
M_RemoteDone(c, ok) ==
    /\ pc[c] = "remote"
    /\ IF using[c] \in held[c]
       THEN ReleaseConnection(c, using[c])
       ELSE UNCHANGED poolVars
    /\ using' = [using EXCEPT ![c] = 0]
    /\ IF op[c].name = "health"
       THEN /\ IF ok THEN M_Return(c, "ok", NoError)
                     ELSE M_Return(c, "default", Err("Transport", 0))
            /\ UNCHANGED res
       ELSE /\ pc' = [pc EXCEPT ![c] = "record"]
            /\ res' = [res EXCEPT ![c] =
                  IF ok THEN [ok |-> TRUE, client |-> using[c], err |-> NoError]
                  ELSE [ok |-> FALSE, client |-> 0,
                        err |-> Err("Transport", 0)]]
            /\ UNCHANGED <<outcome, op>>
    /\ hist' = IF ok \/ op[c].name = "health" THEN hist ELSE HistRemoteFailed(hist, c)
    /\ UNCHANGED <<batchVars, cacheVars, auxVars, now, impl, cfg, cb, tasks, attempt, last_exception, sleepArg,
                   sleepFrom, mlock, vector_stores, frames>>

\* CircuitBreaker.call after func: _on_success and the return through
\* _retry_with_backoff (get_vector_store stores the new store and goes on to
\* the store's remote call; delete_collection goes on to drop its cached
\* store), or _on_failure and the except clause of the loop
M_Record(c) ==
    /\ pc[c] = "record"
    /\ IF res[c].ok
       THEN /\ cb' = OnSuccess(cb)
            /\ frames' = Pop(c)
            /\ res' = [res EXCEPT ![c] = NoRes]
            /\ UNCHANGED <<sleepArg, sleepFrom>>
            /\ IF Len(frames[c]) = 2
               THEN /\ vector_stores' = [vector_stores EXCEPT ![op[c].label] = res[c].client]
                    /\ mlock' = "free"
                    /\ using' = [using EXCEPT ![c] = res[c].client]
                    /\ pc' = [pc EXCEPT ![c] = "remote"]
                    /\ UNCHANGED <<outcome, op>>
               ELSE IF op[c].name = "delete"
               THEN /\ pc' = [pc EXCEPT ![c] = "unstore"]
                    /\ UNCHANGED <<vector_stores, mlock, using, outcome, op>>
               ELSE /\ M_Return(c, "ok", NoError)
                    /\ UNCHANGED <<vector_stores, mlock, using>>
       ELSE /\ cb' = OnFailure(cb)
            /\ M_Except(c, res[c].err)
            /\ UNCHANGED <<vector_stores, using>>
    /\ hist' = HistReturned(hist, c, pc'[c])
    /\ UNCHANGED <<batchVars, cacheVars, auxVars, now, poolVars, impl, cfg, tasks, attempt, last_exception>>

\* delete_collection: "with self._lock: del self._vector_stores[store_label]"
M_Unstore(c) ==
    /\ pc[c] = "unstore"
    /\ mlock = "free"
    /\ vector_stores' = [vector_stores EXCEPT ![op[c].label] = 0]
    /\ M_Return(c, "ok", NoError)
    /\ hist' = HistReturned(hist, c, "idle")
    /\ UNCHANGED <<batchVars, cacheVars, auxVars, now, poolVars, impl, cfg, cb, tasks, attempt, last_exception,
                   sleepArg, sleepFrom, mlock, frames, using, res>>

\* time.sleep(backoff_time) returns: the next iteration of the loop
M_Wake(c) ==
    /\ pc[c] = "sleep"
    /\ now >= sleepFrom[c] + sleepArg[c]
    /\ frames' = SetTop(c, [Top(c) EXCEPT !.attempt = @ + 1])
    /\ pc' = [pc EXCEPT ![c] = "call"]
    /\ sleepArg' = [sleepArg EXCEPT ![c] = 0]
    /\ sleepFrom' = [sleepFrom EXCEPT ![c] = 0]
    /\ UNCHANGED <<batchVars, cacheVars, auxVars, now, poolVars, impl, cfg, cb, tasks, attempt, last_exception,
                   outcome, hist, mlock, vector_stores, op, using, res>>

\* cleanup(): "with self._lock: self._vector_stores.clear()"
M_Cleanup1(c) ==
    /\ pc[c] = "cleanup1"
    /\ mlock = "free"
    /\ vector_stores' = [l \in Labels |-> 0]
    /\ pc' = [pc EXCEPT ![c] = "cleanup2"]
    /\ UNCHANGED <<batchVars, cacheVars, auxVars, now, poolVars, impl, cfg, cb, tasks, attempt, last_exception,
                   sleepArg, sleepFrom, outcome, hist, mlock, frames, op, using, res>>

\* cleanup(): "with self.connection_pool._lock: ..._connections.clear()"
M_Cleanup2(c) ==
    /\ pc[c] = "cleanup2"
    /\ connections' = <<>>
    /\ M_Return(c, "ok", NoError)
    /\ UNCHANGED <<batchVars, cacheVars, auxVars, now, nextClient, held, poolResult, impl, cfg, cb, tasks, attempt,
                   last_exception, sleepArg, sleepFrom, hist, mlock, vector_stores,
                   frames, using, res>>

MgrRetryAttempts == 2
MgrBackoffFactor == 2

\* the manager after __init__, for the collection names in labels
InitThreads(labels) ==
    /\ InitPool
    /\ impl = "thread"
    /\ cfg = [retry_attempts |-> MgrRetryAttempts, retry_backoff_factor |-> MgrBackoffFactor]
    /\ cb = [state |-> "CLOSED", failure_count |-> 0, last_failure_time |-> NoFailureYet]
    /\ tasks = <<>>
    /\ pc = [c \in Callers |-> "idle"]
    /\ attempt = [c \in Callers |-> 0]
    /\ last_exception = [c \in Callers |-> NoError]
    /\ sleepArg = [c \in Callers |-> 0]
    /\ sleepFrom = [c \in Callers |-> 0]
    /\ outcome = [c \in Callers |-> [kind |-> "none", err |-> NoError]]
    /\ hist = HistInit
    /\ mlock = "free"
    /\ vector_stores = [l \in labels |-> 0]
    /\ frames = [c \in Callers |-> <<>>]
    /\ op = [c \in Callers |-> [name |-> "none", label |-> "A"]]
    /\ using = [c \in Callers |-> 0]
    /\ res = [c \in Callers |-> NoRes]
    /\ BatchOff
    /\ CacheOff
    /\ AuxOff

InitManager == InitThreads(Labels)

NextManager ==
    \/ Tick /\ UNCHANGED <<poolVars, execVars, mgrVars, batchVars, cacheVars, auxVars>>
    \/ \E failed \in SUBSET Probed(connections) :
          HealthCheck(failed) /\ UNCHANGED <<now, execVars, mgrVars, batchVars, cacheVars, auxVars>>
    \/ \E c \in Callers, name \in FacadeOps, label \in Labels : M_Begin(c, name, label)
    \/ \E c \in Callers : M_Call(c)
    \/ \E c \in Callers : M_Lock(c)
    \/ \E c \in Callers : M_Acquire(c)
    \/ \E c \in Callers, ok \in BOOLEAN : M_RemoteDone(c, ok)
    \/ \E c \in Callers : M_Record(c)
    \/ \E c \in Callers : M_Unstore(c)
    \/ \E c \in Callers : M_Wake(c)
    \/ \E c \in Callers : M_Cleanup1(c)
    \/ \E c \in Callers : M_Cleanup2(c)

SpecManager == InitManager /\ [][NextManager]_vars

(***************************************************************************)
(* C2: a pooled client is used only by the caller that borrowed it: a      *)
(* remote call of a manager operation goes through a client that the       *)
(* calling thread holds (between its get_connection and its                *)
(* release_connection), and that no other thread's remote call goes        *)
(* through at the same time.  This covers the calls made through a store   *)
(* kept in _vector_stores.                                                 *)
(***************************************************************************)
C2_ExclusiveUse ==
    \A c \in Callers :
        (pc[c] = "remote" /\ using[c] # 0) =>
            /\ using[c] \in held[c]
            /\ \A d \in Callers \ {c} :
                  ~(pc[d] = "remote" /\ using[d] = using[c])

(***************************************************************************)
(* AsyncProductionRAGManager.batch_operations                              *)
(*                                                                         *)
(* An operation is modelled by its 'type'; the coroutine made for          *)
(* operations[i] is identified by i, and so is the value or the exception  *)
(* it ends with.  The loop that builds `tasks` has no suspension point, so *)
(* it is one step; asyncio.gather then lets the coroutines finish in any   *)
(* order and returns their results in the order of `tasks`.                *)
(***************************************************************************)
OpTypes == {"search", "add", "get_info", "delete"}

\* the types the if/elif chain of the loop dispatches
Dispatched == {"search", "add", "get_info"}

\* the list `tasks` after the loop over `operations`, as indices into operations
RECURSIVE BuildTasks(_, _)
BuildTasks(operations, i) ==
    IF i > Len(operations) THEN <<>>
    ELSE IF operations[i] \in Dispatched
    THEN <<i>> \o BuildTasks(operations, i + 1)
    ELSE BuildTasks(operations, i + 1)

Pending == [of |-> 0, raised |-> FALSE]

\* one entry of processed_results
Processed(result) ==
    IF result.raised THEN [of |-> result.of, kind |-> "error"]
    ELSE [of |-> result.of, kind |-> "value"]

\* batch_operations(operations) up to "await asyncio.gather(...)"
B_Call(operations) ==
    /\ batch.pc = "idle"
    /\ LET tasks_ == BuildTasks(operations, 1) IN
       batch' = [pc |-> "gather", operations |-> operations, tasks |-> tasks_,
                 results |-> [k \in 1..Len(tasks_) |-> Pending],
                 processed_results |-> <<>>]

\* the k-th coroutine handed to gather returns a value or raises
B_TaskDone(k, raised) ==
    /\ batch.pc = "gather"
    /\ k \in 1..Len(batch.tasks)
    /\ batch.results[k] = Pending
    /\ batch' = [batch EXCEPT !.results[k] = [of |-> batch.tasks[k], raised |-> raised]]

\* gather returns: the loop over `results` and "return processed_results"
B_Return ==
    /\ batch.pc = "gather"
    /\ \A k \in 1..Len(batch.tasks) : batch.results[k] # Pending
    /\ batch' = [batch EXCEPT !.pc = "idle",
                    !.processed_results = [k \in 1..Len(batch.results) |->
                                              Processed(batch.results[k])]]

BatchInputs == UNION {[1..n -> OpTypes] : n \in 0..MaxBatch}

InitBatch == InitPool /\ ExecOff /\ ManagerOff /\ BatchOff /\ CacheOff /\ AuxOff

NextBatch ==
    \/ \E operations \in BatchInputs :
          B_Call(operations) /\ UNCHANGED <<now, poolVars, execVars, mgrVars, cacheVars, auxVars>>
    \/ \E k \in 1..MaxBatch, raised \in BOOLEAN :
          B_TaskDone(k, raised) /\ UNCHANGED <<now, poolVars, execVars, mgrVars, cacheVars, auxVars>>
    \/ B_Return /\ UNCHANGED <<now, poolVars, execVars, mgrVars, cacheVars, auxVars>>

SpecBatch == InitBatch /\ [][NextBatch]_vars

(***************************************************************************)
(* C10: when batch_operations has returned, its list has one entry per     *)
(* submitted operation and entry i is the outcome of operations[i].        *)
(***************************************************************************)
C10_Positional ==
    (batch.pc = "idle" /\ batch # NoBatch) =>
        /\ Len(batch.processed_results) = Len(batch.operations)
        /\ \A i \in 1..Len(batch.processed_results) :
              batch.processed_results[i].of = i

(***************************************************************************)
(* C11: when an operation of a batch raises, batch_operations still        *)
(* returns, every coroutine handed to gather has run to its own outcome,   *)
(* and the error stands as an error value at the index the failed          *)
(* operation has in `operations`.                                          *)
(***************************************************************************)
C11_FailureIsolated ==
    (batch.pc = "idle" /\ batch # NoBatch) =>
        \A k \in 1..Len(batch.results) :
            batch.results[k].raised =>
                /\ \A j \in 1..Len(batch.results) : batch.results[j] # Pending
                /\ batch.tasks[k] <= Len(batch.processed_results)
                /\ batch.processed_results[batch.tasks[k]] =
                      [of |-> batch.tasks[k], kind |-> "error"]

(***************************************************************************)
(* C12: a client borrowed by a facade operation is released on every exit  *)
(* path: a thread holds a client only while its remote call through that   *)
(* client is in progress, and every pool entry marked in_use is held by    *)
(* some thread; so once an operation has returned or raised, no entry it   *)
(* borrowed is still marked in_use.                                        *)
(***************************************************************************)
C12_ReleasedOnExit ==
    /\ \A c \in Callers :
          held[c] # {} => (pc[c] = "remote" /\ held[c] = {using[c]})
    /\ \A i \in 1..Len(connections) :
          connections[i].in_use =>
              \E c \in Callers : connections[i].client \in held[c]

\* an operation that borrowed a client has ended with an error after its
\* retries, and the entry it borrowed is in the pool, not in use
C12_Witness ==
    \E c \in Callers :
        /\ pc[c] = "idle"
        /\ outcome[c].kind = "default"
        /\ outcome[c].err.kind = "Transport"
        /\ held[c] = {}
        /\ \E i \in 1..Len(connections) : ~connections[i].in_use

(***************************************************************************)
(* AsyncRedisCache                                                         *)
(*                                                                         *)
(* A string is a sequence of characters, so that a Redis pattern is        *)
(* matched against a key character by character.  The Redis keyspace is a  *)
(* set of entries [key, value, expire_at]; an entry is gone once the clock *)
(* reaches expire_at.  Each call of the Redis client is one step and may   *)
(* raise (`fail`).                                                         *)
(***************************************************************************)
s_collection == <<"c", "o", "l", "l", "e", "c", "t", "i", "o", "n">>
s_collections == s_collection \o <<"s">>
s_collection_info == s_collection \o <<"_", "i", "n", "f", "o">>
s_search == <<"s", "e", "a", "r", "c", "h">>
Colon == <<":">>
Star == <<"*">>

\* values of a collection_name argument
CollNames == {<<"a">>, <<"a", "b">>, <<"a", "*">>}

\* the `data` a key is generated from: a plain string, a collection name, or
\* the search_params dict of a similarity_search
RawData(d) == [tag |-> "raw", name |-> <<>>, q |-> d]
NameData(name) == [tag |-> "name", name |-> name, q |-> ""]
ParamsData(name, q) == [tag |-> "params", name |-> name, q |-> q]

DataList ==
    <<RawData("d1"), RawData("d2"), RawData("collections"),
      NameData(<<"a">>), NameData(<<"a", "b">>), NameData(<<"a", "*">>),
      ParamsData(<<"a">>, "q1"), ParamsData(<<"a", "b">>, "q1"),
      ParamsData(<<"a", "*">>, "q1")>>

\* hexdigests, shortened to two digits, one per value of DataList
DigestList ==
    <<<<"0", "a">>, <<"b", "1">>, <<"2", "c">>, <<"3", "d">>, <<"e", "4">>,
      <<"5", "f">>, <<"6", "6">>, <<"7", "7">>, <<"8", "8">>>>

\* hashlib.md5(json.dumps(data, sort_keys=True).encode()).hexdigest()
Digest(data) == DigestList[CHOOSE i \in 1..Len(DataList) : DataList[i] = data]

\* AsyncRedisCache._generate_key: f"{prefix}:{hexdigest}"
GenerateKey(prefix, data) == prefix \o Colon \o Digest(data)

\* a response of the remote service: a dict about collection `of` at version
\* `ver`, or a list of `ver` items
Resp(kind, of, ver) == [kind |-> kind, of |-> of, ver |-> ver]

\* Python's None
NoValue == Resp("none", <<>>, 0)

\* json.dumps(value) and json.loads(text)
Dumps(value) == [json |-> value]
Loads(text) == text.json

\* the glob matching of the Redis KEYS command ('*' and '?')
RECURSIVE Match(_, _)
Match(pattern, key) ==
    IF pattern = <<>> THEN key = <<>>
    ELSE IF Head(pattern) = "*"
    THEN Match(Tail(pattern), key) \/ (key # <<>> /\ Match(pattern, Tail(key)))
    ELSE IF Head(pattern) = "?"
    THEN key # <<>> /\ Match(Tail(pattern), Tail(key))
    ELSE key # <<>> /\ Head(key) = Head(pattern) /\ Match(Tail(pattern), Tail(key))

\* "if not self.config.enabled or not self.redis: return"
Usable(cf) == cf.enabled /\ cf.connected

\* redis.get(key)
RedisGet(store, key) ==
    IF \E e \in store : e.key = key
    THEN [found |-> TRUE, value |-> (CHOOSE e \in store : e.key = key).value]
    ELSE [found |-> FALSE, value |-> Dumps(NoValue)]

SetEx_NoExpiry(store, key, ttl, value) ==
    {e \in store : e.key # key} \cup
        {[key |-> key, value |-> value, expire_at |-> now + ttl + MaxTime]}

\* redis.setex(key, ttl, value)
SetEx(store, key, ttl, value) ==
    {e \in store : e.key # key} \cup
        {[key |-> key, value |-> value, expire_at |-> now + ttl]}

\* redis.keys(pattern)
Keys(store, pattern) == {e.key : e \in {x \in store : Match(pattern, x.key)}}

\* redis.delete(*keys)
Delete(store, keys) == {e \in store : e.key \notin keys}

\* the entries the keyspace still holds when the clock shows t
Expire(store, t) == {e \in store : e.expire_at > t}

GetFailed_Raises == Resp("raised", <<>>, 0)

\* what the except clause of AsyncRedisCache.get leaves get to return
GetFailed == NoValue

\* AsyncRedisCache.get
CacheGet(store, cf, prefix, data, fail) ==
    IF ~Usable(cf) THEN NoValue
    ELSE IF fail THEN GetFailed
    ELSE LET r == RedisGet(store, GenerateKey(prefix, data)) IN
         IF r.found THEN Loads(r.value) ELSE NoValue

\* AsyncRedisCache.set: the keyspace it leaves
CacheSet(store, cf, prefix, data, value, fail) ==
    IF ~Usable(cf) \/ fail THEN store
    ELSE SetEx(store, GenerateKey(prefix, data), ttl_seconds, Dumps(value))

\* the namespace of collection X, and the pattern add_documents invalidates
NsPrefix(X) == s_collection \o Colon \o X \o Colon
NsPattern(X) == NsPrefix(X) \o Star

HasPrefix(key, prefix) ==
    Len(key) >= Len(prefix) /\ SubSeq(key, 1, Len(prefix)) = prefix

\* the (prefix, data) pairs the callers of the cache use
CacheRequests ==
    {[prefix |-> s_collection \o Colon \o <<"a">>, data |-> RawData("d1")],
     [prefix |-> s_collection \o Colon \o <<"a", "b">>, data |-> RawData("d1")],
     [prefix |-> s_search \o Colon \o <<"a">>, data |-> RawData("d1")]}

CacheValues == {Resp("dict", <<"a">>, 1), Resp("dict", <<"a">>, 2)}

InvPatterns == {NsPattern(X) : X \in CollNames}

CcIdle == [pc |-> "idle", pattern |-> <<>>, keys |-> {}, ret |-> "none"]

NeverSet == [set |-> FALSE, value |-> NoValue, at |-> 0]

\* the requests whose key is one of `keys`
RequestsOf(keys) == {r \in CacheRequests : GenerateKey(r.prefix, r.data) \in keys}

\* one coroutine's "await cache.get(prefix, data)"
C_Get(c, prefix, data, fail) ==
    /\ cc[c].pc = "idle"
    /\ LET v == CacheGet(redis, cacheCfg, prefix, data, fail) IN
       cc' = [cc EXCEPT ![c].ret = IF v = NoValue THEN "miss" ELSE "value"]
    /\ UNCHANGED <<redis, cacheCfg, chist, remote, fc>>

\* one coroutine's "await cache.set(prefix, data, value)"
C_Set(c, prefix, data, value, fail) ==
    /\ cc[c].pc = "idle"
    /\ redis' = CacheSet(redis, cacheCfg, prefix, data, value, fail)
    /\ cc' = [cc EXCEPT ![c].ret = "done"]
    /\ chist' = IF Usable(cacheCfg) /\ ~fail
                THEN [chist EXCEPT !.lastSet[[prefix |-> prefix, data |-> data]] =
                         [set |-> TRUE, value |-> value, at |-> now]]
                ELSE chist
    /\ UNCHANGED <<cacheCfg, remote, fc>>

\* invalidate_pattern(pattern) up to the return of "await self.redis.keys"
C_InvalidateKeys(c, pattern, fail) ==
    /\ cc[c].pc = "idle"
    /\ LET keys == IF Usable(cacheCfg) /\ ~fail THEN Keys(redis, pattern) ELSE {} IN
       cc' = [cc EXCEPT ![c] =
                 IF keys = {}
                 THEN [CcIdle EXCEPT !.ret = "done"]
                 ELSE [pc |-> "delete", pattern |-> pattern, keys |-> keys,
                       ret |-> "none"]]
    /\ UNCHANGED <<redis, cacheCfg, chist, remote, fc>>

\* invalidate_pattern: "await self.redis.delete(*keys)" and the return
C_InvalidateDelete(c, fail) ==
    /\ cc[c].pc = "delete"
    /\ LET gone == IF fail THEN {} ELSE cc[c].keys \cap {e.key : e \in redis} IN
       /\ redis' = Delete(redis, gone)
       /\ chist' = [chist EXCEPT
                       !.lastSet = [r \in CacheRequests |->
                                       IF r \in RequestsOf(gone) THEN NeverSet ELSE @[r]]]
    /\ cc' = [cc EXCEPT ![c] = [CcIdle EXCEPT !.ret = "done"]]
    /\ UNCHANGED <<cacheCfg, remote, fc>>

\* the clock moves on and Redis drops the entries that expire; the history
\* forgets the sets whose ttl_seconds have elapsed
C_Tick ==
    /\ Tick
    /\ redis' = Expire(redis, now + 1)
    /\ chist' = [chist EXCEPT
                    !.lastSet = [r \in CacheRequests |->
                                    IF @[r].set /\ now + 1 >= @[r].at + ttl_seconds
                                    THEN NeverSet ELSE @[r]]]
    /\ UNCHANGED <<cacheCfg, cc, remote, fc>>

\* AsyncRedisCache.__init__ and connect(): the backend answered the ping or not
InitCache ==
    /\ InitPool /\ ExecOff /\ ManagerOff /\ BatchOff /\ AuxOff
    /\ redis = {}
    /\ cacheCfg \in [enabled : BOOLEAN, enable_query_cache : {TRUE}, connected : BOOLEAN]
    /\ cc = [c \in Callers |-> CcIdle]
    /\ chist = [lastSet |-> [r \in CacheRequests |-> NeverSet]]
    /\ remote = <<>>
    /\ fc = <<>>

NextCache ==
    \/ C_Tick /\ UNCHANGED <<poolVars, execVars, mgrVars, batchVars, auxVars>>
    \/ \E c \in Callers, r \in CacheRequests, fail \in BOOLEAN :
          C_Get(c, r.prefix, r.data, fail)
             /\ UNCHANGED <<now, poolVars, execVars, mgrVars, batchVars, auxVars>>
    \/ \E c \in Callers, r \in CacheRequests, v \in CacheValues, fail \in BOOLEAN :
          C_Set(c, r.prefix, r.data, v, fail)
             /\ UNCHANGED <<now, poolVars, execVars, mgrVars, batchVars, auxVars>>
    \/ \E c \in Callers, pattern \in InvPatterns, fail \in BOOLEAN :
          C_InvalidateKeys(c, pattern, fail)
             /\ UNCHANGED <<now, poolVars, execVars, mgrVars, batchVars, auxVars>>
    \/ \E c \in Callers, fail \in BOOLEAN :
          C_InvalidateDelete(c, fail)
             /\ UNCHANGED <<now, poolVars, execVars, mgrVars, batchVars, auxVars>>

SpecCache == InitCache /\ [][NextCache]_vars

C15_InvalidationFrame ==
    [][\A c \in Callers, X \in CollNames :
          /\ (cc[c].pc = "idle" /\ cc'[c].pc = "delete" /\ cc'[c].pattern = NsPattern(X)) =>
                cc'[c].keys = {e.key : e \in {x \in redis : HasPrefix(x.key, NsPrefix(X))}}
          /\ (cc[c].pc = "delete" /\ cc'[c].pc = "idle" /\ cc[c].pattern = NsPattern(X)) =>
                \A e \in redis \ redis' : HasPrefix(e.key, NsPrefix(X))]_vars

(***************************************************************************)
(* AsyncProductionRAGManager: the cached read operations and the write     *)
(* operations that invalidate.                                             *)
(*                                                                         *)
(* A coroutine's operation advances from one await to the next.  The call  *)
(* of connection_pool.request (breaker and retries, modelled on their own  *)
(* above) is one step here: the remote service handles the request and     *)
(* answers, or the call raises.  The remote service keeps, per collection, *)
(* whether it exists and a version that every mutation increases.          *)
(***************************************************************************)
AsyncColls == {<<"a">>, <<"a", "b">>}
Reads == {"get_collections", "get_collection_info", "similarity_search"}
Writes == {"create_collection", "add_documents", "delete_collection"}

\* the flag that guards the cache calls of an operation
CacheFlag(name) ==
    IF name = "similarity_search" THEN cacheCfg.enable_query_cache ELSE cacheCfg.enabled

\* the prefix and the data a read operation hands to cache.get and cache.set
ReadPrefix(name, X) ==
    CASE name = "get_collections" -> s_collections
      [] name = "get_collection_info" -> s_collection_info
      [] name = "similarity_search" -> s_search \o Colon \o X

ReadData(name, X) ==
    CASE name = "get_collections" -> RawData("collections")
      [] name = "get_collection_info" -> NameData(X)
      [] name = "similarity_search" -> ParamsData(X, "q1")

\* the pattern a write operation hands to cache.invalidate_pattern
WritePattern(name, X) ==
    CASE name = "create_collection" -> s_collections \o Colon \o Star
      [] name = "add_documents" -> NsPattern(X)
      [] name = "delete_collection" -> Star \o X \o Star

\* "if cached:" -- None and an empty list are false
Truthy(value) == value # NoValue /\ ~(value.kind = "list" /\ value.ver = 0)

\* what the remote service answers to a read
Answer(name, X) ==
    IF name = "get_collections"
    THEN Resp("list", <<>>, Cardinality({Y \in AsyncColls : remote[Y].exists}))
    ELSE Resp("dict", X, remote[X].ver)

\* what a write does on the remote service
Written(name, X) ==
    [remote EXCEPT ![X] = [exists |-> name # "delete_collection", ver |-> @.ver + 1]]

FcIdle == [pc |-> "idle", name |-> "none", coll |-> <<>>, resp |-> NoValue,
           keys |-> {}, hit |-> FALSE, requested |-> FALSE, cacheFailed |-> FALSE,
           ret |-> [kind |-> "none", src |-> "none", value |-> NoValue]]

\* the operation of coroutine c ends: it returns `value` or raises
F_Done(c, kind, src, value) ==
    fc' = [fc EXCEPT ![c].pc = "done", ![c].resp = NoValue, ![c].keys = {},
                     ![c].ret = [kind |-> kind, src |-> src, value |-> value]]

\* a coroutine calls an operation: everything before its first await
F_Begin(c, name, X) ==
    /\ fc[c].pc \in {"idle", "done"}
    /\ chist.begun < MaxCalls
    /\ fc' = [fc EXCEPT ![c] =
                 [FcIdle EXCEPT !.pc = IF name \in Reads /\ CacheFlag(name)
                                       THEN "cache_get" ELSE "request",
                                !.name = name, !.coll = X]]
    /\ chist' = [chist EXCEPT !.begun = @ + 1]
    /\ UNCHANGED <<redis, cacheCfg, cc, remote>>

\* "cached = await self.cache.get(...)" and "if cached: ... return cached"
F_CacheGet(c, fail) ==
    /\ fc[c].pc = "cache_get"
    /\ LET prefix == ReadPrefix(fc[c].name, fc[c].coll)
           data == ReadData(fc[c].name, fc[c].coll)
           cached == CacheGet(redis, cacheCfg, prefix, data, fail)
           found == Usable(cacheCfg) /\ ~fail /\ RedisGet(redis, GenerateKey(prefix, data)).found
       IN IF cached.kind = "raised"
          THEN F_Done(c, "raised", "cache", NoValue)
          ELSE IF Truthy(cached)
          THEN fc' = [fc EXCEPT ![c].pc = "done", ![c].hit = TRUE,
                         ![c].ret = [kind |-> "value", src |-> "cache", value |-> cached]]
          ELSE fc' = [fc EXCEPT ![c].pc = "request", ![c].hit = found,
                         ![c].cacheFailed = Usable(cacheCfg) /\ fail]
    /\ UNCHANGED <<redis, cacheCfg, cc, chist, remote>>

\* the except clause of a write with an invalidation of the write's pattern
ExceptClause_Invalidates(store, name, X) ==
    IF name \in Writes THEN Delete(store, Keys(store, WritePattern(name, X))) ELSE store

\* the keyspace after the except clause of an operation: "requests_failed
\* += 1", logger.error and "raise" -- no call of the cache
ExceptClause(store, name, X) == store

\* "async with self.connection_pool as pool: response = await pool.get/post/
\* delete(...)": the remote service answers, or the call raises into the
\* except clause of the operation, which raises again
F_Request(c, ok) ==
    /\ fc[c].pc = "request"
    /\ LET name == fc[c].name
           X == fc[c].coll
       IN IF ~ok
          THEN /\ fc' = [fc EXCEPT ![c].pc = "done", ![c].requested = TRUE,
                            ![c].ret = [kind |-> "raised", src |-> "remote",
                                        value |-> NoValue]]
               /\ UNCHANGED remote
          ELSE /\ name \in Writes => remote[X].ver < MaxVer
               /\ name \in {"add_documents", "similarity_search", "get_collection_info"}
                     => remote[X].exists
               /\ remote' = IF name \in Writes THEN Written(name, X) ELSE remote
               /\ LET response == IF name \in Writes
                                  THEN Resp("dict", X, remote[X].ver + 1)
                                  ELSE Answer(name, X)
                  IN IF CacheFlag(name)
                     THEN fc' = [fc EXCEPT ![c].pc = IF name \in Writes THEN "invalidate"
                                                     ELSE "cache_set",
                                           ![c].requested = TRUE, ![c].resp = response]
                     ELSE fc' = [fc EXCEPT ![c].pc = "done", ![c].requested = TRUE,
                                    ![c].ret = [kind |-> "value", src |-> "remote",
                                                value |-> response]]
    /\ redis' = IF ok THEN redis ELSE ExceptClause(redis, fc[c].name, fc[c].coll)
    /\ UNCHANGED <<cacheCfg, cc, chist>>

\* a read operation: "await self.cache.set(...)" and "return response"
F_CacheSet(c, fail) ==
    /\ fc[c].pc = "cache_set"
    /\ redis' = CacheSet(redis, cacheCfg, ReadPrefix(fc[c].name, fc[c].coll),
                         ReadData(fc[c].name, fc[c].coll), fc[c].resp, fail)
    /\ fc' = [fc EXCEPT ![c].pc = "done", ![c].resp = NoValue,
                 ![c].cacheFailed = @ \/ (Usable(cacheCfg) /\ fail),
                 ![c].ret = [kind |-> "value", src |-> "remote", value |-> fc[c].resp]]
    /\ UNCHANGED <<cacheCfg, cc, chist, remote>>

\* a write operation: invalidate_pattern up to the return of redis.keys
F_InvalidateKeys(c, fail) ==
    /\ fc[c].pc = "invalidate"
    /\ LET keys == IF Usable(cacheCfg) /\ ~fail
                   THEN Keys(redis, WritePattern(fc[c].name, fc[c].coll)) ELSE {}
       IN IF keys = {}
          THEN fc' = [fc EXCEPT ![c].pc = "done", ![c].resp = NoValue,
                         ![c].cacheFailed = Usable(cacheCfg) /\ fail,
                         ![c].ret = [kind |-> "value", src |-> "remote",
                                     value |-> fc[c].resp]]
          ELSE fc' = [fc EXCEPT ![c].pc = "delete", ![c].keys = keys]
    /\ UNCHANGED <<redis, cacheCfg, cc, chist, remote>>

\* a write operation: "await self.redis.delete(*keys)" and "return response"
F_InvalidateDelete(c, fail) ==
    /\ fc[c].pc = "delete"
    /\ redis' = IF fail THEN redis ELSE Delete(redis, fc[c].keys)
    /\ fc' = [fc EXCEPT ![c].pc = "done", ![c].resp = NoValue, ![c].keys = {},
                 ![c].cacheFailed = fail,
                 ![c].ret = [kind |-> "value", src |-> "remote", value |-> fc[c].resp]]
    /\ UNCHANGED <<cacheCfg, cc, chist, remote>>

\* the clock moves on and Redis drops the entries that expire
F_Tick ==
    /\ Tick
    /\ redis' = Expire(redis, now + 1)
    /\ UNCHANGED <<cacheCfg, cc, chist, remote, fc>>

\* initialize(): the cache is enabled or not and connected or not; on the
\* remote service collection 'a' exists or no collection does
InitFacade ==
    /\ InitPool /\ ExecOff /\ ManagerOff /\ BatchOff /\ AuxOff
    /\ redis = {}
    /\ cacheCfg \in [enabled : BOOLEAN, enable_query_cache : BOOLEAN, connected : BOOLEAN]
    /\ cc = <<>>
    /\ chist = [begun |-> 0]
    /\ \E e \in BOOLEAN :
          remote = [X \in AsyncColls |->
                       IF X = <<"a">> /\ e THEN [exists |-> TRUE, ver |-> 1]
                       ELSE [exists |-> FALSE, ver |-> 0]]
    /\ fc = [c \in Callers |-> FcIdle]

NextFacade ==
    \/ F_Tick /\ UNCHANGED <<poolVars, execVars, mgrVars, batchVars, auxVars>>
    \/ \E c \in Callers, name \in Reads \cup Writes, X \in AsyncColls :
          F_Begin(c, name, X) /\ UNCHANGED <<now, poolVars, execVars, mgrVars, batchVars, auxVars>>
    \/ \E c \in Callers, fail \in BOOLEAN :
          F_CacheGet(c, fail) /\ UNCHANGED <<now, poolVars, execVars, mgrVars, batchVars, auxVars>>
    \/ \E c \in Callers, ok \in BOOLEAN :
          F_Request(c, ok) /\ UNCHANGED <<now, poolVars, execVars, mgrVars, batchVars, auxVars>>
    \/ \E c \in Callers, fail \in BOOLEAN :
          F_CacheSet(c, fail) /\ UNCHANGED <<now, poolVars, execVars, mgrVars, batchVars, auxVars>>
    \/ \E c \in Callers, fail \in BOOLEAN :
          F_InvalidateKeys(c, fail)
             /\ UNCHANGED <<now, poolVars, execVars, mgrVars, batchVars, auxVars>>
    \/ \E c \in Callers, fail \in BOOLEAN :
          F_InvalidateDelete(c, fail)
             /\ UNCHANGED <<now, poolVars, execVars, mgrVars, batchVars, auxVars>>

SpecFacade == InitFacade /\ [][NextFacade]_vars


\* the keys under which the read operations on collection X cache their responses
ReadKeys(X) ==
    {GenerateKey(ReadPrefix(name, X), ReadData(name, X)) :
        name \in {"similarity_search", "get_collection_info"}}

\* C14: when a successful add_documents on X invalidates, with a working
\* cache, the keys it collects cover every entry a similarity_search or a
\* get_collection_info on X cached with a response older than the write, so
\* that no later read of X is answered from such an entry.
C14_InvalidationCovers ==
    [][\A c \in Callers :
          (/\ fc[c].pc = "invalidate"
           /\ fc[c].name = "add_documents"
           /\ fc'[c].pc # "invalidate"
           /\ Usable(cacheCfg)
           /\ ~fc'[c].cacheFailed)
          => \A e \in redis :
                (e.key \in ReadKeys(fc[c].coll) /\ Loads(e.value).ver < fc[c].resp.ver)
                   => e.key \in fc'[c].keys]_vars

\* C16: an operation of the facade raises only what its request to the
\* remote service raised, and an operation whose cache call failed, or whose
\* cache is disabled or not connected, is still answered by the remote
\* service: the failure of the cache neither raises nor answers.
C16_CacheNeverRaises ==
    \A c \in Callers :
        fc[c].pc = "done" =>
            /\ fc[c].ret.kind = "raised" => (fc[c].ret.src = "remote" /\ fc[c].requested)
            /\ (fc[c].cacheFailed \/ ~Usable(cacheCfg)) =>
                  (fc[c].requested /\ fc[c].ret.src = "remote")

C16_Witness ==
    \E c \in Callers :
        /\ fc[c].pc = "done"
        /\ fc[c].cacheFailed
        /\ fc[c].name \in Reads
        /\ fc[c].ret.kind = "value"
        /\ fc[c].ret.src = "remote"

\* C20: a read operation that found its key in the cache returns the cached
\* value and sends no request; one that did not find it sends a request.
C20_CacheFirst ==
    \A c \in Callers :
        (fc[c].pc = "done" /\ fc[c].name \in Reads /\ CacheFlag(fc[c].name)) =>
            IF fc[c].hit
            THEN ~fc[c].requested /\ fc[c].ret.src = "cache"
            ELSE fc[c].requested /\ fc[c].ret.src = "remote"

\* C17: a step that sets the failure counter of the breaker back to zero
\* leaves the breaker in state CLOSED.
C17_ResetOnlyIntoClosed ==
    [][(cb.failure_count # 0 /\ cb'.failure_count = 0) => cb'.state = "CLOSED"]_vars

\* C18: one facade operation of the manager sees at most retry_attempts of
\* its calls to the remote service fail: after that many failures it has
\* given up.
C18_BoundedAttempts ==
    \A c \in Callers : hist.failed[c] <= cfg.retry_attempts

\* C19: when add_documents, delete_collection or similarity_search of the
\* manager returns to its caller after its executor call failed, the error is
\* raised to the caller, never turned into a return value.
C19_ErrorsSurface ==
    [][\A c \in Callers :
          (/\ pc[c] # "idle"
           /\ pc'[c] = "idle"
           /\ op[c].name \in {"add", "delete", "search"}
           /\ outcome'[c].err # NoError)
          => outcome'[c].kind = "raised"]_vars

\* C21: when get_connection refused an attempt of _retry_with_backoff because
\* the pool is exhausted, the breaker counts a failure and the loop goes on
\* as after any failed attempt: it sleeps retry_backoff_factor ** attempt and
\* tries again while attempts are left, and gives up only after the last one.
C21_ExhaustionRetried ==
    [][\A c \in Callers :
          (/\ pc[c] = "record"
           /\ res[c].err.kind = "PoolExhausted"
           /\ pc'[c] # "record")
          => /\ cb'.failure_count = cb.failure_count + 1
             /\ IF Top(c).attempt < cfg.retry_attempts - 1
                THEN /\ pc'[c] = "sleep"
                     /\ sleepArg'[c] = Pow(cfg.retry_backoff_factor, Top(c).attempt)
                     /\ Len(frames'[c]) = Len(frames[c])
                     /\ outcome'[c].kind = "running"
                ELSE Len(frames'[c]) = Len(frames[c]) - 1]_vars

\* a thread sleeps before the retry of an attempt that the exhausted pool refused
C21_Witness ==
    \E c \in Callers :
        /\ pc[c] = "sleep"
        /\ Top(c).last_exception.kind = "PoolExhausted"

(***************************************************************************)
(* ProductionRAGManager._record_success: the list of response times.       *)
(* Threads leaving _retry_with_backoff call it without a lock; the append, *)
(* the test of the length, the slice and the assignment of the slice are   *)
(* separate steps of the interpreter.  A sample is named by its arrival    *)
(* number.  The counters of ConnectionMetrics are left out.                *)
(***************************************************************************)
\* "response_times[-1000:]"
LastSamples(seq) ==
    IF Len(seq) > MaxResponseTimes
    THEN SubSeq(seq, Len(seq) - MaxResponseTimes + 1, Len(seq))
    ELSE seq

MetricsIdle == [pc |-> "idle", sliced |-> <<>>]

\* "self._metrics.response_times.append(response_time)"
R_Append(c) ==
    /\ metrics.th[c].pc = "idle"
    /\ metrics.recorded < MaxSamples
    /\ metrics' = [metrics EXCEPT
                      !.response_times = Append(@, metrics.recorded + 1),
                      !.recorded = @ + 1,
                      !.th[c].pc = "len"]

\* "if len(self._metrics.response_times) > 1000"
R_Len(c) ==
    /\ metrics.th[c].pc = "len"
    /\ metrics' = [metrics EXCEPT
                      !.th[c].pc = IF Len(metrics.response_times) > MaxResponseTimes
                                   THEN "slice" ELSE "idle"]

\* the right-hand side "self._metrics.response_times[-1000:]": a new list
R_Slice(c) ==
    /\ metrics.th[c].pc = "slice"
    /\ metrics' = [metrics EXCEPT
                      !.th[c] = [pc |-> "store",
                                 sliced |-> LastSamples(metrics.response_times)]]

\* "self._metrics.response_times = ..." : the attribute is bound to the new list
R_Store(c) ==
    /\ metrics.th[c].pc = "store"
    /\ metrics' = [metrics EXCEPT
                      !.response_times = metrics.th[c].sliced,
                      !.th[c] = MetricsIdle]

InitMetrics ==
    /\ InitPool /\ ExecOff /\ ManagerOff /\ BatchOff /\ CacheOff
    /\ metrics = [response_times |-> <<>>, recorded |-> 0,
                  th |-> [c \in Callers |-> MetricsIdle]]
    /\ pair = <<>>
    /\ locks = <<>>
    /\ am = <<>>

NextMetrics ==
    \/ \E c \in Callers : R_Append(c) /\ UNCHANGED <<now, poolVars, execVars, mgrVars, batchVars, cacheVars, pair, locks, am>>
    \/ \E c \in Callers : R_Len(c) /\ UNCHANGED <<now, poolVars, execVars, mgrVars, batchVars, cacheVars, pair, locks, am>>
    \/ \E c \in Callers : R_Slice(c) /\ UNCHANGED <<now, poolVars, execVars, mgrVars, batchVars, cacheVars, pair, locks, am>>
    \/ \E c \in Callers : R_Store(c) /\ UNCHANGED <<now, poolVars, execVars, mgrVars, batchVars, cacheVars, pair, locks, am>>

SpecMetrics == InitMetrics /\ [][NextMetrics]_vars

\* the arrival numbers lo, lo + 1, ..., hi in order
Arrivals(lo, hi) == [i \in 1..(hi - lo + 1) |-> lo + i - 1]

\* C22: when no thread is inside _record_success, the list of response times
\* holds the most recent samples recorded, at most MaxResponseTimes of them,
\* in their order of arrival.
C22_MostRecent ==
    (\A c \in Callers : metrics.th[c].pc = "idle") =>
        metrics.response_times =
            Arrivals(IF metrics.recorded > MaxResponseTimes
                     THEN metrics.recorded - MaxResponseTimes + 1 ELSE 1,
                     metrics.recorded)

\* C23: the breaker changes its state only from CLOSED to OPEN, from OPEN to
\* HALF_OPEN, from HALF_OPEN to CLOSED and from HALF_OPEN to OPEN, whatever
\* the interleaving of the callers; never from OPEN to CLOSED.
C23_Transitions ==
    [][cb'.state # cb.state =>
          <<cb.state, cb'.state>> \in
              {<<"CLOSED", "OPEN">>, <<"OPEN", "HALF_OPEN">>,
               <<"HALF_OPEN", "CLOSED">>, <<"HALF_OPEN", "OPEN">>}]_vars

\* C24: asyncio client: while the breaker is OPEN and rejects (the timeout
\* has not passed since the last failure), no request goes from its backoff
\* sleep to a further HTTP attempt.
C24_AdmissionPerAttempt ==
    [][(/\ impl = "async"
        /\ cb.state = "OPEN"
        /\ ~(now - cb.last_failure_time > recovery_timeout))
         => \A c \in Callers : ~(pc[c] = "sleep" /\ pc'[c] = "http")]_vars

\* C25: asyncio client: when request() has returned or raised to its caller,
\* the outcome of each of its attempts has been applied to the breaker.
C25_AppliedBeforeReturn ==
    impl = "async" => \A c \in Callers : pc[c] = "idle" => NoOwnTask(c)

\* C26: in both breakers, state CLOSED implies that the failure counter is
\* below failure_threshold.
C26_ClosedBelowThreshold ==
    cb.state = "CLOSED" => cb.failure_count < failure_threshold

\* the breaker is CLOSED one failure below the threshold while recordings of
\* concurrent requests are still to be applied
C26_Witness ==
    /\ cb.state = "CLOSED"
    /\ cb.failure_count = failure_threshold - 1
    /\ Len(tasks) >= 2

\* C27: in every state with the breaker OPEN, a call made now is admitted,
\* with the breaker moving to HALF_OPEN, when recovery_timeout has elapsed
\* since the last recorded failure, and is rejected, leaving state, counter
\* and last-failure time as they are, when it has not.
C27_RecoveryFromLastFailure ==
    cb.state = "OPEN" =>
        LET r == IF impl = "thread" THEN CanExecute(cb) ELSE CheckState(cb) IN
        IF now - cb.last_failure_time >= recovery_timeout
        THEN r.ok /\ r.cb = [cb EXCEPT !.state = "HALF_OPEN"]
        ELSE ~r.ok /\ r.cb = cb

(***************************************************************************)
(* A CircuitBreaker and an AsyncCircuitBreaker with equal threshold and    *)
(* timeout, driven one call at a time by the same events: an admission     *)
(* check, then, without the clock moving, the outcome of the admitted call *)
(* recorded in each breaker that admitted it.                              *)
(***************************************************************************)
\* both breakers check admission: _can_execute and _check_state
P_Check ==
    /\ pair.phase = "idle"
    /\ LET rt == CanExecute(pair.thread)
           ra == CheckState(pair.async) IN
       pair' = [thread |-> rt.cb, async |-> ra.cb,
                admitted |-> [thread |-> rt.ok, async |-> ra.ok],
                phase |-> IF rt.ok \/ ra.ok THEN "call" ELSE "idle"]

\* the call returns (ok) or raises: _on_success / _on_failure, and the task
\* of record_success / record_failure run at once
P_Record(ok) ==
    /\ pair.phase = "call"
    /\ pair' = [pair EXCEPT
                   !.thread = IF ~pair.admitted.thread THEN @
                              ELSE IF ok THEN OnSuccess(@) ELSE OnFailure(@),
                   !.async = IF ~pair.admitted.async THEN @
                             ELSE IF ok THEN RecordSuccess(@) ELSE RecordFailure(@),
                   !.phase = "idle"]

\* time passes between two calls
P_Tick ==
    /\ pair.phase = "idle"
    /\ Tick

InitPair ==
    /\ InitPool /\ ExecOff /\ ManagerOff /\ BatchOff /\ CacheOff
    /\ metrics = <<>>
    /\ locks = <<>>
    /\ am = <<>>
    /\ pair = [thread |-> [state |-> "CLOSED", failure_count |-> 0,
                           last_failure_time |-> NoFailureYet],
               async |-> [state |-> "CLOSED", failure_count |-> 0,
                          last_failure_time |-> 0],
               admitted |-> [thread |-> TRUE, async |-> TRUE],
               phase |-> "idle"]

NextPair ==
    \/ P_Check /\ UNCHANGED <<now, poolVars, execVars, mgrVars, batchVars, cacheVars, metrics, locks, am>>
    \/ \E ok \in BOOLEAN :
          P_Record(ok) /\ UNCHANGED <<now, poolVars, execVars, mgrVars, batchVars, cacheVars, metrics, locks, am>>
    \/ P_Tick /\ UNCHANGED <<poolVars, execVars, mgrVars, batchVars, cacheVars, auxVars>>

SpecPair == InitPair /\ [][NextPair]_vars

\* C28: driven by the same events, the two breakers make the same admission
\* decision at every check and are in the same state with the same counter
\* after every event.
C28_SameContract ==
    /\ pair.admitted.thread = pair.admitted.async
    /\ pair.thread.state = pair.async.state
    /\ pair.thread.failure_count = pair.async.failure_count

\* the entries of the pool that match (host, port), are not in use and are
\* not idle-expired
Available(host, port) ==
    {i \in 1..Len(connections) :
        /\ connections[i].host = host
        /\ connections[i].port = port
        /\ ~connections[i].in_use
        /\ now - connections[i].last_used < max_idle_time}

IdleExpired(conn) == ~conn.in_use /\ now - conn.last_used >= max_idle_time

\* C30: a scan of the health checker that destroys connections (the only
\* step that shortens the pool) leaves no idle-expired entry in the pool.
C30_ExpiredDestroyed ==
    [][Len(connections') < Len(connections) =>
          \A i \in 1..Len(connections') : ~IdleExpired(connections'[i])]_vars

(***************************************************************************)
(* ConnectionPool._health_check_connections, frame of one scan.            *)
(***************************************************************************)

\* The entries of conns, in order, whose clients are in keep.
Kept(conns, keep) == SelectSeq(conns, LAMBDA conn : conn.client \in keep)

Clients(conns) == {conns[i].client : i \in 1..Len(conns)}

C38_AvailableWhenIdle ==
    \A host \in Hosts, port \in Ports :
        (/\ InUse(connections) = {}
         /\ \A i \in 1..Len(connections) :
               connections[i].host = host /\ connections[i].port = port)
        => GetConn(connections, host, port).result # "exhausted"

\* a delete_collection on X has returned its response to coroutine d, with
\* a working cache and no failure of its invalidation
DeleteReturned(d, X) ==
    /\ fc[d].pc = "done"
    /\ fc[d].name = "delete_collection"
    /\ fc[d].coll = X
    /\ fc[d].ret.kind = "value"
    /\ ~fc[d].cacheFailed
    /\ Usable(cacheCfg)

\* C32: once a delete_collection on X has returned and X is gone from the
\* remote service, a get_collection_info or similarity_search on X is not
\* answered from the cache with a response older than the deletion, and a
\* get_collections is not answered from the cache with a list that counts
\* more collections than exist.
C32_NoStaleReadAfterDelete ==
    [][\A c, d \in Callers : \A X \in AsyncColls :
          (/\ DeleteReturned(d, X)
           /\ ~remote[X].exists
           /\ fc[c].pc = "cache_get"
           /\ fc'[c].pc = "done"
           /\ fc'[c].ret.src = "cache")
          => IF fc[c].name = "get_collections"
             THEN fc'[c].ret.value.ver
                     <= Cardinality({Y \in AsyncColls : remote[Y].exists})
             ELSE fc[c].coll = X => fc'[c].ret.value.ver >= remote[X].ver]_vars

\* the key under which get_collections caches its response
CollectionsKey == GenerateKey(ReadPrefix("get_collections", <<>>),
                              ReadData("get_collections", <<>>))

\* C33: the invalidation of a delete_collection on X removes only entries
\* that depend on X (the cached searches and the cached info of X, and the
\* cached list of collections); an entry cached for a different collection
\* Y, even one whose name contains X, is still there afterwards.
C33_DeleteRemovesOnlyOwn ==
    [][\A c \in Callers :
          (/\ fc[c].pc = "delete"
           /\ fc[c].name = "delete_collection"
           /\ fc'[c].pc = "done")
          => \A e \in redis \ redis' :
                e.key \in ReadKeys(fc[c].coll) \cup {CollectionsKey}]_vars

\* C34: a write operation touches the cache only after its remote call has
\* answered: a step of create_collection, add_documents or delete_collection
\* taken before the response is there, the one in which the remote call
\* raises included, leaves the cache content exactly as it was.
C34_InvalidateAfterSuccess ==
    [][\A c \in Callers :
          (/\ fc'[c] # fc[c]
           /\ fc[c].name \in Writes
           /\ fc[c].pc \notin {"idle", "done"}
           /\ (fc[c].resp = NoValue \/ fc'[c].ret.kind = "raised"))
          => redis' = redis]_vars

\* a write has raised while the cache held an entry its pattern matches
C34_Witness ==
    \E c \in Callers :
        /\ fc[c].pc = "done"
        /\ fc[c].name \in Writes
        /\ fc[c].ret.kind = "raised"
        /\ Keys(redis, WritePattern(fc[c].name, fc[c].coll)) # {}

(***************************************************************************)
(* ProductionRAGManager with two collections: similarity_search and        *)
(* add_documents of two threads, each on collection A or B, so that the    *)
(* threads meet at "with self._lock" of get_vector_store.                  *)
(***************************************************************************)
StoreLabels == {"A", "B"}
StoreOps == {"search", "add"}

InitStores == InitThreads(StoreLabels)

NextStores ==
    \/ Tick /\ UNCHANGED <<poolVars, execVars, mgrVars, batchVars, cacheVars, auxVars>>
    \/ \E c \in Callers, name \in StoreOps, label \in StoreLabels : M_Begin(c, name, label)
    \/ \E c \in Callers : M_Call(c)
    \/ \E c \in Callers : M_Lock(c)
    \/ \E c \in Callers : M_Acquire(c)
    \/ \E c \in Callers, ok \in BOOLEAN : M_RemoteDone(c, ok)
    \/ \E c \in Callers : M_Record(c)
    \/ \E c \in Callers : M_Wake(c)

SpecStores == InitStores /\ [][NextStores]_vars

\* C35: while a thread is in a backoff sleep or in a remote call of its
\* operation on one collection, no thread with an operation on another
\* collection stands at "with self._lock" with that lock held by the first.
C35_NoCrossBlocking ==
    \A c, d \in Callers :
        ~(/\ pc[c] \in {"sleep", "remote"}
          /\ mlock = c
          /\ pc[d] = "lock"
          /\ op[d].label # op[c].label)

(***************************************************************************)
(* AsyncProductionRAGManager: the session of the shared AsyncConnectionPool *)
(* and the counters of self.metrics.                                       *)
(*                                                                         *)
(* Every operation runs its request inside "async with                     *)
(* self.connection_pool as pool", on the one pool object of the manager.   *)
(* A coroutine advances from one await to the next:                        *)
(*   "enter"  before "async with self.connection_pool"                     *)
(*   "http"   its request is in flight on the session                      *)
(*   "sleep"  in asyncio.sleep between two attempts                        *)
(*   "cache"  in cache.set / cache.invalidate_pattern after the response   *)
(* The cache and the breaker are modelled on their own above; here the     *)
(* cache answers a read or not, and the breaker admits every request.      *)
(***************************************************************************)
SessRetryAttempts == 2   \* ConnectionConfig.retry_attempts
MaxAsyncOps == 3         \* operations begun in one run

Counters == {"requests_total", "requests_success", "requests_failed",
             "cache_hits", "cache_misses"}

CoIdle == [pc |-> "idle", name |-> "none", attempt |-> 0, cut |-> FALSE]

\* self.metrics[k] += 1
Incr(m, k) == [m EXCEPT ![k] = @ + 1]

\* _update_metrics: requests_total += 1 (the average is left out)
UpdateMetrics(m) == Incr(m, "requests_total")

\* _ensure_session: a session is created when there is none or it is closed
EnsureSession(session) == IF session \in {"none", "closed"} THEN "open" ELSE session

\* AsyncConnectionPool.close, called by __aexit__
Close(session) == IF session = "open" THEN "closed" ELSE session

\* get_metrics()['success_rate'] as numerator and denominator
SuccessRate(m) ==
    IF m["requests_total"] > 0
    THEN <<m["requests_success"], m["requests_total"]>>
    ELSE <<0, 1>>

\* the requests of the other coroutines that are in flight on a session
\* being closed lose their connection
CutOthers(co, c) ==
    [d \in Callers |-> IF d # c /\ co[d].pc = "http"
                       THEN [co[d] EXCEPT !.cut = TRUE] ELSE co[d]]

\* the operation leaves "async with self.connection_pool" by an exception:
\* __aexit__ closes the session, the except clause counts the failure and
\* raises again
S_Raise(c) ==
    am' = [am EXCEPT !.session = Close(@),
                     !.metrics = Incr(@, "requests_failed"),
                     !.co = [CutOthers(am.co, c) EXCEPT ![c] = CoIdle]]

\* a coroutine calls an operation; with the cache enabled a read asks the
\* cache first and returns the cached value when there is one
S_Begin(c, name, cached) ==
    /\ am.co[c].pc = "idle"
    /\ am.begun < MaxAsyncOps
    /\ cached => am.enabled
    /\ IF name \in Reads /\ cached
       THEN am' = [am EXCEPT !.begun = @ + 1,
                             !.metrics = Incr(@, "cache_hits")]
       ELSE am' = [am EXCEPT !.begun = @ + 1,
                             !.co[c] = [CoIdle EXCEPT !.pc = "enter", !.name = name]]

\* "async with self.connection_pool as pool" (__aenter__) and pool.request
\* up to the first "async with self.session.request(...)"
S_Enter(c) ==
    /\ am.co[c].pc = "enter"
    /\ am' = [am EXCEPT !.session = EnsureSession(@), !.co[c].pc = "http"]

\* after the cache call, if any: a read counts the miss, _update_metrics,
\* and the return through __aexit__, which closes the session
Returned(a, c) ==
    [a EXCEPT !.session = Close(@),
              !.metrics = UpdateMetrics(IF a.co[c].name \in Reads
                                        THEN Incr(@, "cache_misses") ELSE @),
              !.co = [CutOthers(a.co, c) EXCEPT ![c] = CoIdle]]

\* the request in flight ends: the response arrives (never on a connection
\* that was cut) and the operation counts the success and goes on to its
\* cache call or, with the cache disabled, to its return; or the request
\* fails and the loop sleeps or raises
S_Http(c, ok) ==
    /\ am.co[c].pc = "http"
    /\ ok => ~am.co[c].cut
    /\ IF ok
       THEN LET counted == [am EXCEPT !.metrics = Incr(@, "requests_success")] IN
            am' = IF am.enabled THEN [counted EXCEPT !.co[c].pc = "cache"]
                  ELSE Returned(counted, c)
       ELSE IF am.co[c].attempt = SessRetryAttempts - 1
       THEN S_Raise(c)
       ELSE am' = [am EXCEPT !.co[c].pc = "sleep", !.co[c].cut = FALSE]

\* asyncio.sleep returns: the next attempt, "await self._ensure_session()"
\* and the request
S_Wake(c) ==
    /\ am.co[c].pc = "sleep"
    /\ am' = [am EXCEPT !.session = EnsureSession(@),
                        !.co[c].pc = "http", !.co[c].attempt = @ + 1]

\* cache.set / cache.invalidate_pattern returns
S_Return(c) ==
    /\ am.co[c].pc = "cache"
    /\ am' = Returned(am, c)

InitSession ==
    /\ InitPool /\ ExecOff /\ ManagerOff /\ BatchOff /\ CacheOff
    /\ metrics = <<>>
    /\ pair = <<>>
    /\ locks = <<>>
    /\ am \in [session : {"none"},
               enabled : BOOLEAN,
               metrics : {[k \in Counters |-> 0]},
               co : {[c \in Callers |-> CoIdle]},
               begun : {0}]

NextSession ==
    \/ \E c \in Callers, name \in Reads \cup Writes, cached \in BOOLEAN :
          S_Begin(c, name, cached)
             /\ UNCHANGED <<now, poolVars, execVars, mgrVars, batchVars, cacheVars,
                            metrics, pair, locks>>
    \/ \E c \in Callers :
          S_Enter(c)
             /\ UNCHANGED <<now, poolVars, execVars, mgrVars, batchVars, cacheVars,
                            metrics, pair, locks>>
    \/ \E c \in Callers, ok \in BOOLEAN :
          S_Http(c, ok)
             /\ UNCHANGED <<now, poolVars, execVars, mgrVars, batchVars, cacheVars,
                            metrics, pair, locks>>
    \/ \E c \in Callers :
          S_Wake(c)
             /\ UNCHANGED <<now, poolVars, execVars, mgrVars, batchVars, cacheVars,
                            metrics, pair, locks>>
    \/ \E c \in Callers :
          S_Return(c)
             /\ UNCHANGED <<now, poolVars, execVars, mgrVars, batchVars, cacheVars,
                            metrics, pair, locks>>

SpecSession == InitSession /\ [][NextSession]_vars

\* C36: a step that closes the shared session leaves no other coroutine
\* with a request in flight on it or asleep between two attempts.
C36_NoCloseUnderSibling ==
    [][(am.session = "open" /\ am'.session = "closed") =>
          \A d \in Callers :
              am.co[d].pc \in {"http", "sleep"} => am'.co[d].pc # am.co[d].pc]_vars

\* C37: when no operation is in progress, requests_total is the sum of
\* requests_success and requests_failed, and success_rate is the ratio of
\* requests_success to that sum.
C37_CountersAgree ==
    (\A c \in Callers : am.co[c].pc = "idle") =>
        LET m == am.metrics
            done == m["requests_success"] + m["requests_failed"] IN
        /\ m["requests_total"] = done
        /\ done > 0 => SuccessRate(m)[1] * done = m["requests_success"] * SuccessRate(m)[2]

(***************************************************************************)
(* The locks of the thread-based client: ProductionRAGManager._lock,       *)
(* ConnectionPool._lock and CircuitBreaker._lock, all threading.RLock.     *)
(*                                                                         *)
(* A thread's operation is the sequence of its lock events, read off the   *)
(* code: "acq" and "rel" of a lock at the entry and exit of a "with        *)
(* self._lock" block, and "work" for a remote call or a time.sleep.  An    *)
(* acquisition waits until the lock is free or owned by the thread itself. *)
(***************************************************************************)
LockNames == {"manager", "pool", "breaker"}
LockThreads == Callers \cup {"health"}
MaxLockOps == 2    \* operations begun by the callers in one run
MaxScans == 1      \* scans of the health checker in one run

Ev(kind, lock) == [kind |-> kind, lock |-> lock]
With(lock, body) == <<Ev("acq", lock)>> \o body \o <<Ev("rel", lock)>>
Work == <<Ev("work", "none")>>

\* CircuitBreaker._can_execute, _on_success, _on_failure
BreakerSection == With("breaker", <<>>)
\* ConnectionPool.get_connection, release_connection
PoolSection == With("pool", <<>>)
\* "with self._get_connection() as client: <remote call>"
WithConnection == PoolSection \o Work \o PoolSection
\* CircuitBreaker.call(func)
BreakerCall(func) == BreakerSection \o func \o BreakerSection

\* _retry_with_backoff(func) in which the first n - 1 attempts fail
RECURSIVE RetryLoop(_, _)
RetryLoop(func, n) ==
    IF n = 1 THEN BreakerCall(func)
    ELSE BreakerCall(func) \o Work \o RetryLoop(func, n - 1)

\* get_vector_store: the store is cached, or it is created in n attempts
GetVectorStore(n) ==
    IF n = 0 THEN With("manager", <<>>)
    ELSE With("manager", RetryLoop(WithConnection, n))

\* similarity_search / add_documents: get_vector_store and the store's call
SearchProg(n) == RetryLoop(GetVectorStore(n) \o Work, 1)
\* get_collection_info
InfoProg == RetryLoop(WithConnection, 1)
\* delete_collection
DeleteProg == RetryLoop(WithConnection, 1) \o With("manager", <<>>)
\* health_check
HealthProg == WithConnection
\* cleanup taking the pool lock first and the manager lock inside it
CleanupProg_PoolFirst == With("pool", With("manager", <<>>))
\* cleanup
CleanupProg == With("manager", <<>>) \o With("pool", <<>>)
\* _health_check_connections: the heartbeats are sent under the pool lock
ScanProg == With("pool", Work)

LockPrograms ==
    {SearchProg(n) : n \in 0..MgrRetryAttempts}
        \cup {InfoProg, DeleteProg, HealthProg, CleanupProg}

Free == [owner |-> "free", count |-> 0]

\* thread t begins an operation: a caller a facade operation, the health
\* checker a scan
L_Begin(t, prog) ==
    /\ locks.todo[t] = <<>>
    /\ IF t = "health"
       THEN /\ prog = ScanProg
            /\ locks.scans < MaxScans
            /\ locks' = [locks EXCEPT !.todo[t] = prog, !.scans = @ + 1]
       ELSE /\ prog \in LockPrograms
            /\ locks.begun < MaxLockOps
            /\ locks' = [locks EXCEPT !.todo[t] = prog, !.begun = @ + 1]

\* RLock.acquire: the lock is free or the thread owns it
L_Acquire(t) ==
    /\ locks.todo[t] # <<>>
    /\ LET e == Head(locks.todo[t]) IN
       /\ e.kind = "acq"
       /\ locks.lock[e.lock].owner \in {"free", t}
       /\ locks' = [locks EXCEPT !.todo[t] = Tail(@),
                                 !.lock[e.lock] = [owner |-> t, count |-> @.count + 1]]

\* RLock.release
L_Release(t) ==
    /\ locks.todo[t] # <<>>
    /\ LET e == Head(locks.todo[t]) IN
       /\ e.kind = "rel"
       /\ locks' = [locks EXCEPT !.todo[t] = Tail(@),
                                 !.lock[e.lock] = IF @.count = 1 THEN Free
                                                  ELSE [@ EXCEPT !.count = @ - 1]]

\* a remote call or a sleep returns
L_Work(t) ==
    /\ locks.todo[t] # <<>>
    /\ Head(locks.todo[t]).kind = "work"
    /\ locks' = [locks EXCEPT !.todo[t] = Tail(@)]

LockRest == <<now, poolVars, execVars, mgrVars, batchVars, cacheVars, metrics, pair, am>>

InitLocks ==
    /\ InitPool /\ ExecOff /\ ManagerOff /\ BatchOff /\ CacheOff
    /\ metrics = <<>>
    /\ pair = <<>>
    /\ am = <<>>
    /\ locks = [lock |-> [l \in LockNames |-> Free],
                todo |-> [t \in LockThreads |-> <<>>],
                begun |-> 0,
                scans |-> 0]

NextLocks ==
    \/ \E t \in LockThreads, prog \in LockPrograms \cup {ScanProg} :
          L_Begin(t, prog) /\ UNCHANGED LockRest
    \/ \E t \in LockThreads : L_Acquire(t) /\ UNCHANGED LockRest
    \/ \E t \in LockThreads : L_Release(t) /\ UNCHANGED LockRest
    \/ \E t \in LockThreads : L_Work(t) /\ UNCHANGED LockRest

\* a thread that has begun an operation goes on with it: the scheduler runs
\* every runnable thread, remote calls and sleeps return
LockStep(t) == (L_Acquire(t) \/ L_Release(t) \/ L_Work(t)) /\ UNCHANGED LockRest

SpecLocks == InitLocks /\ [][NextLocks]_vars
SpecLocksFair == SpecLocks /\ \A t \in LockThreads : WF_vars(LockStep(t))

\* thread t requests a lock that another thread owns
Waiting(t) ==
    /\ locks.todo[t] # <<>>
    /\ Head(locks.todo[t]).kind = "acq"
    /\ locks.lock[Head(locks.todo[t]).lock].owner \notin {"free", t}

\* t waits for a lock that u owns
WaitsFor(t, u) == Waiting(t) /\ locks.lock[Head(locks.todo[t]).lock].owner = u

\* a nonempty set of threads each waiting for a lock owned by one of them
WaitCycle == \E S \in SUBSET LockThreads \ {{}} : \A t \in S : \E u \in S : WaitsFor(t, u)

\* C39: no set of threads ever waits in a cycle for the manager lock, the
\* pool lock and the breaker lock, and every thread that requests one of
\* these locks eventually obtains it.
C39_DeadlockFree ==
    /\ []~WaitCycle
    /\ \A t \in LockThreads : Waiting(t) ~> ~Waiting(t)

\* a thread inside get_vector_store holds the manager lock and the pool
\* lock at once while another thread waits for the manager lock and the
\* health checker waits for the pool lock
C39_Witness ==
    \E t \in Callers : \E u \in Callers \ {t} :
        /\ locks.lock["manager"].owner = t
        /\ locks.lock["pool"].owner = t
        /\ WaitsFor(u, t)
        /\ WaitsFor("health", t)
=============================================================================
